---- MODULE Spec2Model ----
(***************************************************************************)
(* A model of the layered trie-node store: the layer tree (layerTree),     *)
(* the diff layers stacked on the disk layer, the disk layer with its      *)
(* dirty and clean caches over the key-value store, and the reverse-diff   *)
(* freezer that lets the disk layer be rolled back.                        *)
(*                                                                         *)
(* Layers are objects on a heap (layers), addressed by object id, because  *)
(* the parent pointer and the stale flag of a layer are shared by every    *)
(* holder of a reference to it.  The dirty cache, the clean cache and the  *)
(* key-value store are shared by all disk layers, as in the code, where a  *)
(* new disk layer is built around the caches of the one it supersedes.     *)
(***************************************************************************)
EXTENDS Integers, Sequences, FiniteSets, TLC

\* ---------------------------------------------------------------- bounds

\* Number of distinct non-empty node blobs.
NBlobs == 2

\* Largest diffid a diff layer may get (caps the id counter).
MaxID == 3

\* Flush threshold of the dirty cache, counted in buffered nodes.
DirtyLimit == 1

\* Number of reverse diffs retained in the freezer.
StateLimit == 2

\* ------------------------------------------------------- hashes and blobs

\* common.Hash{}: the zero hash.
ZeroHash == 0

\* The root hash of the empty trie.
emptyRoot == 20

\* crypto.Keccak256Hash(nil): the hash of the empty blob.
KeccakNil == 10

\* A blob is 0 (nil, empty) or one of 1..NBlobs.
Blobs == 0..NBlobs

\* The content hash of a blob; injective, and never the zero hash.
Keccak(b) == IF b = 0 THEN KeccakNil ELSE KeccakNil + b

\* Every hash a caller can name.
Hashes == {ZeroHash, emptyRoot} \cup {Keccak(b) : b \in Blobs}

\* Node keys <<owner, path>>: the root node of the account trie (owner zero,
\* empty path) and the root node of the storage trie of account 1.
AccountRootKey == <<ZeroHash, <<>>>>

StorageKey == <<1, <<>>>>

Keys == {AccountRootKey, StorageKey}

\* The storage node a root node commits to: a state is determined by its
\* root node (Merkle property), and two root nodes may share a child.
ChildOf(b) == (b + 1) \div 2

\* The state (key -> blob, 0 for absent) whose root node is the blob b.
ViewOf(b) == [k \in Keys |-> IF k = AccountRootKey THEN b ELSE ChildOf(b)]

\* The blob of the root node of the state with the given root hash.
RootBlob(root) ==
    IF \E b \in 1..NBlobs : Keccak(b) = root
    THEN CHOOSE b \in 1..NBlobs : Keccak(b) = root
    ELSE 0

\* The state with the given root hash.
ViewOfRoot(root) == ViewOf(RootBlob(root))

\* convertEmpty converts the given hash to emptyRoot if it is the zero hash.
convertEmpty(hash) == IF hash = ZeroHash THEN emptyRoot ELSE hash

\* ------------------------------------------------------------ node sets

\* memoryNode of a blob; the zero hash and the nil blob mark a deletion.
MemoryNode(b) == [hash |-> IF b = 0 THEN ZeroHash ELSE Keccak(b), blob |-> b]

\* nodeWithPrev: a memoryNode and the blob the node had before.
NodeWithPrev(b, prev) == [hash |-> MemoryNode(b).hash, blob |-> b, prev |-> prev]

\* unwrap returns the internal memoryNode.
unwrap(n) == [hash |-> n.hash, blob |-> n.blob]

\* The dirty nodes a committer produces going from state `from` to state `to`
\* (MergedNodeSet.simplify of the sets built with markUpdated/markDeleted).
DirtyNodes(from, to) ==
    [k \in {x \in Keys : from[x] # to[x]} |-> NodeWithPrev(to[k], from[k])]

\* ---------------------------------------------------------------- state

VARIABLES
    layers,   \* heap: object id -> layer (diskLayer or diffLayer)
    tree,     \* layerTree.layers: root hash -> object id
    dirty,    \* diskcache.nodes: key -> memoryNode
    cacheLimit, \* diskcache.limit: the size above which the cache is flushed
    kv,       \* key-value store, trie node tables: key -> blob (0 = absent)
    kvHead,   \* key-value store, ReverseDiffHead: the persistent diffid
    journal,  \* key-value store, TrieJournal: whether a journal blob is stored
    clean,    \* clean cache: hash -> blob
    freezer,  \* freezers: [attached, tail, head, items: id -> reverseDiff, room]
              \* of the reverse diffs, history: [attached, head] of the state history
    sets,     \* MergedNodeSet.sets: owner -> NodeSet
    merges,   \* the NodeSets handed to Merge so far, in call order
    call,     \* a call of forEachTipNode or newStateHistory: its arguments
              \* and, once it has returned, its result
    capper,   \* the goroutine inside layerTree.cap or setCacheSize: position,
              \* locks held
    reader    \* the goroutine inside a node lookup or inside add: position,
              \* read locks held, layer looked up

\* The variables of the merged node set and of the calls on node sets.
mergeVars == <<sets, merges, call>>

\* The variables of the goroutines that run step by step.
procVars == <<capper, reader>>

vars == <<layers, tree, dirty, cacheLimit, kv, kvHead, journal, clean, freezer, mergeVars,
          procVars>>

\* The store as the operations thread it through their steps.
Store == [layers |-> layers, tree |-> tree, dirty |-> dirty, limit |-> cacheLimit,
          kv |-> kv,
          kvHead |-> kvHead, journal |-> journal, clean |-> clean,
          freezer |-> freezer]

\* An empty node map.
NoNodes == [k \in {} |-> 0]

\* newDiskLayer that gives every disk layer the empty root.
newDiskLayerAtEmptyRoot(root, diffid) ==
    [kind |-> "disk", root |-> emptyRoot, diffid |-> diffid, nodes |-> NoNodes,
     parent |-> 0, stale |-> FALSE]

\* newDiskLayer
newDiskLayer(root, diffid) ==
    [kind |-> "disk", root |-> root, diffid |-> diffid, nodes |-> NoNodes,
     parent |-> 0, stale |-> FALSE]

\* newDiffLayer that drops the nodes it is given.
newDiffLayerWithoutNodes(parent, root, diffid, nodes) ==
    [kind |-> "diff", root |-> root, diffid |-> diffid, nodes |-> NoNodes,
     parent |-> parent, stale |-> FALSE]

\* newDiffLayer
newDiffLayer(parent, root, diffid, nodes) ==
    [kind |-> "diff", root |-> root, diffid |-> diffid, nodes |-> nodes,
     parent |-> parent, stale |-> FALSE]

\* The smallest object id not in use.
NewId(L) == CHOOSE i \in 1..(Cardinality(DOMAIN L) + 1) : i \notin DOMAIN L

\* The objects on the parent chain of an object, itself included.
RECURSIVE Chain(_, _)
Chain(L, id) ==
    IF id = 0 THEN {}
    ELSE {id} \cup Chain(L, L[id].parent)

\* The objects the layers of the tree refer to, directly or through parents.
Live(L, T) == {i \in DOMAIN L : \E r \in DOMAIN T : i \in Chain(L, T[r])}

\* A number that orders the objects of the heap: by diffid, then by whether
\* the tree holds the object, then by root, kind, stale flag and parent root.
Code(L, T, i) ==
    LET o == L[i]
        orphan == IF \E r \in DOMAIN T : T[r] = i THEN 0 ELSE 1
        kind   == IF o.kind = "disk" THEN 0 ELSE 1
        stale  == IF o.stale THEN 1 ELSE 0
        proot  == IF o.parent = 0 THEN 0 ELSE L[o.parent].root
    IN  ((((o.diffid * 2 + orphan) * 32 + o.root) * 2 + kind) * 2 + stale) * 32 + proot

\* The live objects renumbered in the order of their codes (object ids break
\* ties), and the tree map over the renumbered heap.
Renumber(L, T, live, code) ==
    CHOOSE c \in
       {[layers |-> [n \in 1..Cardinality(live) |->
                        LET i == CHOOSE j \in live : rank[j] = n
                        IN  [L[i] EXCEPT !.parent = IF L[i].parent = 0 THEN 0
                                                    ELSE rank[L[i].parent]]],
         tree   |-> [r \in DOMAIN T |-> rank[T[r]]]] :
          rank \in {[i \in live |->
                       Cardinality({j \in live :
                           \/ code[j] < code[i]
                           \/ code[j] = code[i] /\ j < i}) + 1]}} : TRUE

\* The heap without the objects nothing refers to any more, the objects left
\* renumbered: object ids are addresses, and which addresses the objects have
\* does not matter.
Collect(L, T) ==
    CHOOSE c \in UNION {UNION {{Renumber(h.L, h.T, live, code) :
                                  code \in {[i \in live |-> Code(h.L, h.T, i)]}} :
                               live \in {Live(h.L, h.T)}} :
                        h \in {[L |-> L, T |-> T]}} : TRUE

\* ------------------------------------------------------------ disk cache

\* diskcache.node: the buffered node of a key, checked against the hash.
dirtyNode(S, key, hash) ==
    IF key \notin DOMAIN S.dirty THEN [err |-> "", found |-> FALSE, n |-> MemoryNode(0)]
    ELSE IF S.dirty[key].hash # hash
         THEN [err |-> "unexpected-node", found |-> FALSE, n |-> MemoryNode(0)]
         ELSE [err |-> "", found |-> TRUE, n |-> S.dirty[key]]

\* diskcache.commit: the cache with the given nodes written over it.
dirtyCommit(cache, nodes) ==
    [k \in DOMAIN cache \cup DOMAIN nodes |->
        IF k \in DOMAIN nodes THEN nodes[k] ELSE cache[k]]

\* diskcache.empty
dirtyEmpty(cache) == DOMAIN cache = {}

\* diskcache.size, one unit per buffered node.
dirtySize(cache) == Cardinality(DOMAIN cache)

\* The single batch of a flush: every buffered node is put, or deleted if it
\* is a deletion, the persistent diffid is written with them, the clean cache
\* gets the nodes written, and the cache is cleared.
flush(S, diffid) ==
    [S EXCEPT
        !.kv = [k \in Keys |-> IF k \in DOMAIN S.dirty THEN S.dirty[k].blob ELSE S.kv[k]],
        !.kvHead = diffid,
        !.clean = LET put == {k \in DOMAIN S.dirty : S.dirty[k].blob # 0}
                      hs == {S.dirty[k].hash : k \in put}
                  IN  [h \in DOMAIN S.clean \cup hs |->
                        IF h \in hs
                        THEN S.dirty[CHOOSE k \in put : S.dirty[k].hash = h].blob
                        ELSE S.clean[h]],
        !.dirty = NoNodes]

\* diskcache.mayFlush: flush if the cache is over its limit or if forced.
mayFlush(S, diffid, force) ==
    IF dirtySize(S.dirty) > S.limit \/ force THEN flush(S, diffid) ELSE S

\* ------------------------------------------------------- reverse diffs

\* The reverse diff of a bottom-most diff layer over its disk layer.
newReverseDiff(S, bottom) ==
    [parent |-> S.layers[S.layers[bottom].parent].root,
     root   |-> S.layers[bottom].root,
     states |-> [k \in DOMAIN S.layers[bottom].nodes |-> S.layers[bottom].nodes[k].prev]]

\* The ids of the reverse diffs the freezer holds.
Stored(f) == (f.tail + 1)..f.head

\* storeReverseDiff: append the reverse diff of the bottom-most diff layer
\* under its diffid, then prune the reverse diffs older than the limit.  The
\* freezer takes items in order only, and no more than the disk under it has
\* room for.
storeReverseDiff(S, bottom, limit) ==
    LET id   == S.layers[bottom].diffid
        f    == S.freezer
        tail == IF limit = 0 \/ id <= limit THEN f.tail
                ELSE IF id - limit > f.tail THEN id - limit ELSE f.tail
    IN  IF id # f.head + 1 THEN [S |-> S, err |-> "append"]
        ELSE IF id > f.room THEN [S |-> S, err |-> "no-space"]
        ELSE [S |-> [S EXCEPT !.freezer =
                        [attached |-> f.attached,
                         history |-> f.history,
                         room  |-> f.room,
                         tail  |-> tail,
                         head  |-> id,
                         items |-> [i \in (tail + 1)..id |->
                                      IF i = id THEN newReverseDiff(S, bottom)
                                      ELSE f.items[i]]]],
              err |-> ""]

\* rawdb.WriteStateHistory: append the state history of a diff layer to
\* the state-history freezer under its diffid.  The freezer takes items in
\* order only.
WriteStateHistory(S, id) ==
    IF id # S.freezer.history.head + 1 THEN [S |-> S, err |-> "append"]
    ELSE [S |-> [S EXCEPT !.freezer.history.head = id], err |-> ""]

\* storeStateHistory: write the state history of the bottom-most diff layer;
\* the outcome of the write is dropped.
storeStateHistory(S, bottom) ==
    [S |-> WriteStateHistory(S, S.layers[bottom].diffid).S, err |-> ""]

\* ------------------------------------------------------------ disk layer

\* commit that gives the new disk layer the diffid of the old one.
commitKeepsDiffId(S, dl, bottom, force) ==
    LET S1 == [S EXCEPT !.layers[dl].stale = TRUE]
        R  == storeReverseDiff(S1, bottom, StateLimit)
    IN  IF R.err # "" THEN [S |-> S1, base |-> 0, err |-> R.err]
        ELSE
          LET slim == [k \in DOMAIN S.layers[bottom].nodes |->
                          unwrap(S.layers[bottom].nodes[k])]
              ndl  == NewId(R.S.layers)
              S2   == [R.S EXCEPT
                         !.layers = [i \in DOMAIN R.S.layers \cup {ndl} |->
                                       IF i = ndl
                                       THEN newDiskLayer(S.layers[bottom].root,
                                                         S.layers[dl].diffid)
                                       ELSE R.S.layers[i]],
                         !.dirty = dirtyCommit(R.S.dirty, slim)]
          IN  [S |-> mayFlush(S2, S.layers[bottom].diffid, force), base |-> ndl, err |-> ""]

\* commit that stores no reverse diff, as with no freezer attached.
commitNoReverseDiff(S, dl, bottom, force) ==
    LET S1   == [S EXCEPT !.layers[dl].stale = TRUE]
        slim == [k \in DOMAIN S.layers[bottom].nodes |->
                    unwrap(S.layers[bottom].nodes[k])]
        ndl  == NewId(S1.layers)
        S2   == [S1 EXCEPT
                   !.layers = [i \in DOMAIN S1.layers \cup {ndl} |->
                                 IF i = ndl
                                 THEN newDiskLayer(S.layers[bottom].root,
                                                   S.layers[bottom].diffid)
                                 ELSE S1.layers[i]],
                   !.dirty = dirtyCommit(S1.dirty, slim)]
    IN  [S |-> mayFlush(S2, S.layers[bottom].diffid, force), base |-> ndl, err |-> ""]

\* diskLayer.commit: merge the bottom-most diff layer into the disk layer dl
\* and return the new disk layer.
commit(S, dl, bottom, force) ==
    LET S1 == [S EXCEPT !.layers[dl].stale = TRUE]
        R0 == IF S1.freezer.attached THEN storeReverseDiff(S1, bottom, StateLimit)
              ELSE [S |-> S1, err |-> ""]
        R  == IF R0.err = "" /\ S1.freezer.history.attached
              THEN storeStateHistory(R0.S, bottom) ELSE R0
    IN  IF R.err # "" THEN [S |-> R.S, base |-> 0, err |-> R.err]
        ELSE
          LET slim == [k \in DOMAIN S.layers[bottom].nodes |->
                          unwrap(S.layers[bottom].nodes[k])]
              ndl  == NewId(R.S.layers)
              S2   == [R.S EXCEPT
                         !.layers = [i \in DOMAIN R.S.layers \cup {ndl} |->
                                       IF i = ndl
                                       THEN newDiskLayer(S.layers[bottom].root,
                                                         S.layers[bottom].diffid)
                                       ELSE R.S.layers[i]],
                         !.dirty = dirtyCommit(R.S.dirty, slim)]
          IN  [S |-> mayFlush(S2, S.layers[bottom].diffid, force), base |-> ndl, err |-> ""]

\* ------------------------------------------------------------ diff layer

\* diffToDisk: merge a bottom-most diff layer into the disk layer below it.
diffToDisk(S, bottom, force) == commit(S, S.layers[bottom].parent, bottom, force)

\* diffLayer.persist: store the diff layer and all its parent diff layers to
\* disk, from bottom to top.
RECURSIVE persist(_, _, _)
persist(S, dl, force) ==
    LET parent == S.layers[dl].parent
    IN  IF S.layers[parent].kind = "diff"
        THEN LET R == persist(S, parent, force)
             IN  IF R.err # "" THEN R
                 ELSE diffToDisk([R.S EXCEPT !.layers[dl].parent = R.base], dl, force)
        ELSE diffToDisk(S, dl, force)

\* MarkStale of either layer kind: set the stale flag; marking a layer that
\* is stale already is the panic of a double commit.
MarkStale(S, dl) ==
    IF S.layers[dl].stale THEN [S |-> S, err |-> "panic"]
    ELSE [S |-> [S EXCEPT !.layers[dl].stale = TRUE], err |-> ""]

\* ---------------------------------------------------------- node lookups

\* rawdb.ReadAccountTrieNode: the blob stored for a path of the account trie
\* and its hash (the zero hash if there is none).
ReadAccountTrieNode(S, path) ==
    LET b == S.kv[<<ZeroHash, path>>]
    IN  [blob |-> b, hash |-> IF b = 0 THEN ZeroHash ELSE Keccak(b)]

\* rawdb.ReadStorageTrieNode: the same for a path of a storage trie.
ReadStorageTrieNode(S, owner, path) ==
    LET b == S.kv[<<owner, path>>]
    IN  [blob |-> b, hash |-> IF b = 0 THEN ZeroHash ELSE Keccak(b)]

\* The result of a lookup that found no node and hit no error.
NotFound(S) == [err |-> "", found |-> FALSE, n |-> MemoryNode(0), S |-> S]

\* The result of a lookup that failed.
Failed(S, err) == [err |-> err, found |-> FALSE, n |-> MemoryNode(0), S |-> S]

\* The lookup that asks the clean cache before the dirty cache.
diskLayerLookupCleanFirst(S, dl, key, hash) ==
      IF hash \in DOMAIN S.clean /\ S.clean[hash] # 0
      THEN [err |-> "", found |-> TRUE,
            n |-> [hash |-> hash, blob |-> S.clean[hash]], S |-> S]
      ELSE
      LET d == dirtyNode(S, key, hash)
      IN  IF d.err # "" THEN Failed(S, d.err)
          ELSE IF d.found THEN [err |-> "", found |-> TRUE, n |-> d.n, S |-> S]
          ELSE
            LET r == IF key[1] = ZeroHash
                     THEN ReadAccountTrieNode(S, key[2])
                     ELSE ReadStorageTrieNode(S, key[1], key[2])
            IN  IF r.hash # hash THEN Failed(S, "unexpected-node")
                ELSE IF r.blob = 0 THEN NotFound(S)
                ELSE [err |-> "", found |-> TRUE,
                      n |-> [hash |-> hash, blob |-> r.blob],
                      S |-> [S EXCEPT !.clean =
                               [h \in DOMAIN S.clean \cup {hash} |->
                                  IF h = hash THEN r.blob ELSE S.clean[h]]]]

\* The lookup of diskLayer.node below its stale check.
diskLayerLookup(S, dl, key, hash) ==
      LET d == dirtyNode(S, key, hash)
      IN  IF d.err # "" THEN Failed(S, d.err)
          ELSE IF d.found THEN [err |-> "", found |-> TRUE, n |-> d.n, S |-> S]
          ELSE IF hash \in DOMAIN S.clean /\ S.clean[hash] # 0
               THEN [err |-> "", found |-> TRUE,
                     n |-> [hash |-> hash, blob |-> S.clean[hash]], S |-> S]
          ELSE
            LET r == IF key[1] = ZeroHash
                     THEN ReadAccountTrieNode(S, key[2])
                     ELSE ReadStorageTrieNode(S, key[1], key[2])
            IN  IF r.hash # hash THEN Failed(S, "unexpected-node")
                ELSE IF r.blob = 0 THEN NotFound(S)
                ELSE [err |-> "", found |-> TRUE,
                      n |-> [hash |-> hash, blob |-> r.blob],
                      S |-> [S EXCEPT !.clean =
                               [h \in DOMAIN S.clean \cup {hash} |->
                                  IF h = hash THEN r.blob ELSE S.clean[h]]]]

\* diskLayer.node without the stale check.
diskLayerNodeNoStaleCheck(S, dl, key, hash) == diskLayerLookup(S, dl, key, hash)

\* diskLayer.node: dirty cache, then clean cache, then key-value store.
diskLayerNode(S, dl, key, hash) ==
    IF S.layers[dl].stale THEN Failed(S, "snapshot-stale")
    ELSE diskLayerLookup(S, dl, key, hash)

\* diffLayer.node: the layer's own nodes, then the parent.
RECURSIVE diffLayerNode(_, _, _, _)
diffLayerNode(S, dl, key, hash) ==
    IF S.layers[dl].stale THEN Failed(S, "snapshot-stale")
    ELSE IF key \in DOMAIN S.layers[dl].nodes
         THEN IF S.layers[dl].nodes[key].hash # hash
              THEN Failed(S, "unexpected-node")
              ELSE [err |-> "", found |-> TRUE,
                    n |-> unwrap(S.layers[dl].nodes[key]), S |-> S]
    ELSE IF S.layers[S.layers[dl].parent].kind = "diff"
         THEN diffLayerNode(S, S.layers[dl].parent, key, hash)
         ELSE diskLayerNode(S, S.layers[dl].parent, key, hash)

\* snapshot.node, dispatched on the kind of the layer.
node(S, dl, key, hash) ==
    IF S.layers[dl].kind = "diff"
    THEN diffLayerNode(S, dl, key, hash)
    ELSE diskLayerNode(S, dl, key, hash)

\* The blob memoryNode.rlp returns for a raw node; the node of a deletion
\* holds no raw node and has no encoding, which NilNode stands for.
NilNode == 0 - 1

rlp(n) == IF n.hash = ZeroHash /\ n.blob = 0 THEN NilNode ELSE n.blob

\* NodeBlob of either layer kind: the blob of the node, nil if there is none
\* or if the lookup failed.
NodeBlob(S, dl, key, hash) ==
    LET r == node(S, dl, key, hash)
    IN  [err |-> r.err, blob |-> IF r.err # "" \/ ~r.found THEN 0 ELSE rlp(r.n), S |-> r.S]

\* ------------------------------------------------------------ layer tree

\* get that looks the root up as given.
getAsGiven(S, root) ==
    IF root \in DOMAIN S.tree THEN S.tree[root] ELSE 0

\* layerTree.get: the layer stored under a root, 0 if there is none.
get(S, root) ==
    IF convertEmpty(root) \in DOMAIN S.tree THEN S.tree[convertEmpty(root)] ELSE 0

\* The tree map with a layer stored under a root.
Put(T, root, id) == [r \in DOMAIN T \cup {root} |-> IF r = root THEN id ELSE T[r]]

\* add without the check for a cycle.
addWithoutCycleCheck(S, root, parentRoot, nodes) ==
    LET r == convertEmpty(root)
        p == convertEmpty(parentRoot)
    IN  IF get(S, p) = 0 THEN [S |-> S, err |-> "parent-missing"]
        ELSE LET parent == get(S, p)
                 snap   == NewId(S.layers)
             IN  [S |-> [S EXCEPT
                           !.layers = [i \in DOMAIN S.layers \cup {snap} |->
                                         IF i = snap
                                         THEN newDiffLayer(parent, r,
                                                  S.layers[parent].diffid + 1, nodes)
                                         ELSE S.layers[i]],
                           !.tree = Put(S.tree, r, snap)],
                  err |-> ""]

\* layerTree.add: link a new diff layer to the layer stored under parentRoot.
add(S, root, parentRoot, nodes) ==
    LET r == convertEmpty(root)
        p == convertEmpty(parentRoot)
    IN  IF r = p THEN [S |-> S, err |-> "snapshot-cycle"]
        ELSE IF get(S, p) = 0 THEN [S |-> S, err |-> "parent-missing"]
        ELSE LET parent == get(S, p)
                 snap   == NewId(S.layers)
             IN  [S |-> [S EXCEPT
                           !.layers = [i \in DOMAIN S.layers \cup {snap} |->
                                         IF i = snap
                                         THEN newDiffLayer(parent, r,
                                                  S.layers[parent].diffid + 1, nodes)
                                         ELSE S.layers[i]],
                           !.tree = Put(S.tree, r, snap)],
                  err |-> ""]

\* The dive of cap that stays at the head layer.
DiveNowhere(S, diff, steps) == diff

\* The dive of cap: the diff layer `steps` parents below diff, 0 if the
\* chain of diff layers ends before.
RECURSIVE Dive(_, _, _)
Dive(S, diff, steps) ==
    IF steps = 0 THEN diff
    ELSE IF S.layers[S.layers[diff].parent].kind = "diff"
         THEN Dive(S, S.layers[diff].parent, steps - 1)
         ELSE 0

\* The roots cap removes: the roots of the stale layers of the tree and of
\* every layer linked, through the roots of the parents, to one of them.
RECURSIVE Removed(_, _)
Removed(S, roots) ==
    LET more == {r \in DOMAIN S.tree :
                    /\ S.layers[S.tree[r]].kind = "diff"
                    /\ S.layers[S.layers[S.tree[r]].parent].root \in roots}
    IN  IF more \subseteq roots THEN roots ELSE Removed(S, roots \cup more)

\* The last step of cap: remove any layer that is stale or links into a
\* stale layer.
removeStale(S) ==
    LET gone == Removed(S, {r \in DOMAIN S.tree : S.layers[S.tree[r]].stale})
    IN  [S EXCEPT !.tree = [r \in DOMAIN S.tree \ gone |-> S.tree[r]]]

\* capFlatten without the link of the diff layer to the new disk layer.
capFlattenNoRelink(S, diff) ==
    LET R == persist(S, S.layers[diff].parent, FALSE)
    IN  IF R.err # "" THEN [S |-> R.S, err |-> R.err]
        ELSE [S |-> [R.S EXCEPT
                       !.tree = Put(R.S.tree, R.S.layers[R.base].root, R.base)],
              err |-> ""]

\* The flattening step of cap: persist the parent of the lowest diff layer
\* kept, store the new disk layer under its root and link the diff layer to it.
capFlatten(S, diff) ==
    LET R == persist(S, S.layers[diff].parent, FALSE)
    IN  IF R.err # "" THEN [S |-> R.S, err |-> R.err]
        ELSE [S |-> [R.S EXCEPT
                       !.tree = Put(R.S.tree, R.S.layers[R.base].root, R.base),
                       !.layers[diff].parent = R.base],
              err |-> ""]

\* capCommit that does not force the flush of the dirty cache.
capCommitNoForce(S, diff) ==
    LET R == persist(S, diff, FALSE)
    IN  IF R.err # "" THEN [S |-> R.S, err |-> R.err]
        ELSE [S |-> [R.S EXCEPT !.tree = [r \in {R.S.layers[R.base].root} |-> R.base]],
              err |-> ""]

\* The full commit of cap: persist the whole chain and replace the tree with
\* the flat base.
capCommit(S, diff) ==
    LET R == persist(S, diff, TRUE)
    IN  IF R.err # "" THEN [S |-> R.S, err |-> R.err]
        ELSE [S |-> [R.S EXCEPT !.tree = [r \in {R.S.layers[R.base].root} |-> R.base]],
              err |-> ""]

\* cap that returns no error when the root is that of a disk layer.
capOfDiskLayerNil(S, root, n) ==
    LET snap == get(S, root)
    IN  IF snap = 0 THEN [S |-> S, err |-> "snapshot-missing"]
        ELSE IF S.layers[snap].kind # "diff" THEN [S |-> S, err |-> ""]
        ELSE IF n = 0 THEN capCommit(S, snap)
        ELSE LET diff == Dive(S, snap, n - 1)
             IN  IF diff = 0 THEN [S |-> S, err |-> ""]
                 ELSE IF S.layers[S.layers[diff].parent].kind # "diff"
                 THEN [S |-> S, err |-> ""]
                 ELSE LET R == capFlatten(S, diff)
                      IN  IF R.err # "" THEN R
                          ELSE [S |-> removeStale(R.S), err |-> ""]

\* layerTree.cap
cap(S, root, n) ==
    LET snap == get(S, root)
    IN  IF snap = 0 THEN [S |-> S, err |-> "snapshot-missing"]
        ELSE IF S.layers[snap].kind # "diff" THEN [S |-> S, err |-> "is-disk-layer"]
        ELSE IF n = 0 THEN capCommit(S, snap)
        ELSE LET diff == Dive(S, snap, n - 1)
             IN  IF diff = 0 THEN [S |-> S, err |-> ""]
                 ELSE IF S.layers[S.layers[diff].parent].kind # "diff"
                 THEN [S |-> S, err |-> ""]
                 ELSE LET R == capFlatten(S, diff)
                      IN  IF R.err # "" THEN R
                          ELSE [S |-> removeStale(R.S), err |-> ""]

\* layerTree.bottom: the layer without parent below the entry the iteration
\* of the map yields first (the map of Go iterates in no fixed order).
RECURSIVE Bottom(_, _)
Bottom(S, id) == IF S.layers[id].parent = 0 THEN id ELSE Bottom(S, S.layers[id].parent)

bottom(S, first) == Bottom(S, S.tree[first])

\* newLayerTree that stores the head layer only.
newLayerTreeHeadOnly(L, head, T) ==
    IF head = 0 THEN T ELSE Put(T, L[head].root, head)

\* newLayerTree: the map of a head layer and its ancestors, filled from the
\* head downwards, so that a lower layer takes the entry of a higher layer
\* with the same root.
RECURSIVE newLayerTree(_, _, _)
newLayerTree(L, head, T) ==
    IF head = 0 THEN T ELSE newLayerTree(L, L[head].parent, Put(T, L[head].root, head))

\* ------------------------------------------------------------- rollback

\* reverseDiff.apply: the previous values written to the key-value store.
apply(diff, store) ==
    [k \in Keys |-> IF k \in DOMAIN diff.states THEN diff.states[k] ELSE store[k]]

\* diskcache.revert: the previous values written over the buffered nodes.
dirtyRevert(cache, diff) ==
    [k \in DOMAIN cache \cup DOMAIN diff.states |->
        IF k \in DOMAIN diff.states THEN MemoryNode(diff.states[k]) ELSE cache[k]]

\* loadReverseDiff: the reverse diff the freezer holds under an id.
loadReverseDiff(S, id) ==
    IF id \in Stored(S.freezer)
    THEN [err |-> "", diff |-> S.freezer.items[id]]
    ELSE [err |-> "missing", diff |-> [parent |-> ZeroHash, root |-> ZeroHash, states |-> NoNodes]]

\* revert that gives the new disk layer the root of the reverse diff in
\* place of its parent.
revertToDiffRoot(S, dl, diff, diffid, cerr) ==
    IF diff.root # S.layers[dl].root
    THEN [S |-> S, base |-> 0, err |-> "unmatched-reverse-diff"]
    ELSE IF diffid # S.layers[dl].diffid
    THEN [S |-> S, base |-> 0, err |-> "unmatched-reverse-diff"]
    ELSE IF S.layers[dl].diffid = 0
    THEN [S |-> S, base |-> 0, err |-> "state-unrecoverable"]
    ELSE LET S1  == [S EXCEPT !.layers[dl].stale = TRUE]
             S2  == IF dirtyEmpty(S1.dirty)
                    THEN [S1 EXCEPT !.kv = apply(diff, S1.kv), !.kvHead = diffid - 1]
                    ELSE [S1 EXCEPT !.dirty = dirtyRevert(S1.dirty, diff)]
             ndl == NewId(S2.layers)
         IN  IF ~dirtyEmpty(S1.dirty) /\ cerr # ""
             THEN [S |-> S1, base |-> 0, err |-> cerr]
             ELSE
             [S |-> [S2 EXCEPT !.layers =
                        [i \in DOMAIN S2.layers \cup {ndl} |->
                           IF i = ndl
                           THEN newDiskLayer(diff.root, S.layers[dl].diffid - 1)
                           ELSE S2.layers[i]]],
              base |-> ndl, err |-> ""]

\* revert that marks the disk layer stale before it compares the reverse
\* diff with the layer.
revertStaleFirst(S, dl, diff, diffid, cerr) ==
    LET S1 == [S EXCEPT !.layers[dl].stale = TRUE]
    IN  IF diff.root # S.layers[dl].root
        THEN [S |-> S1, base |-> 0, err |-> "unmatched-reverse-diff"]
        ELSE IF diffid # S.layers[dl].diffid
        THEN [S |-> S1, base |-> 0, err |-> "unmatched-reverse-diff"]
        ELSE IF S.layers[dl].diffid = 0
        THEN [S |-> S1, base |-> 0, err |-> "state-unrecoverable"]
        ELSE LET S2  == IF dirtyEmpty(S1.dirty)
                        THEN [S1 EXCEPT !.kv = apply(diff, S1.kv), !.kvHead = diffid - 1]
                        ELSE [S1 EXCEPT !.dirty = dirtyRevert(S1.dirty, diff)]
                 ndl == NewId(S2.layers)
             IN  IF ~dirtyEmpty(S1.dirty) /\ cerr # ""
                 THEN [S |-> S1, base |-> 0, err |-> cerr]
                 ELSE
                 [S |-> [S2 EXCEPT !.layers =
                            [i \in DOMAIN S2.layers \cup {ndl} |->
                               IF i = ndl
                               THEN newDiskLayer(diff.parent, S.layers[dl].diffid - 1)
                               ELSE S2.layers[i]]],
                  base |-> ndl, err |-> ""]

\* diskLayer.revert: apply the reverse diff to the disk layer dl and return
\* the new disk layer. cerr is the error diskcache.revert returns ("" for
\* none); the layer is marked stale before the cache is asked.
revert(S, dl, diff, diffid, cerr) ==
    IF diff.root # S.layers[dl].root
    THEN [S |-> S, base |-> 0, err |-> "unmatched-reverse-diff"]
    ELSE IF diffid # S.layers[dl].diffid
    THEN [S |-> S, base |-> 0, err |-> "unmatched-reverse-diff"]
    ELSE IF S.layers[dl].diffid = 0
    THEN [S |-> S, base |-> 0, err |-> "state-unrecoverable"]
    ELSE LET S1  == [S EXCEPT !.layers[dl].stale = TRUE]
             S2  == IF dirtyEmpty(S1.dirty)
                    THEN [S1 EXCEPT !.kv = apply(diff, S1.kv), !.kvHead = diffid - 1]
                    ELSE [S1 EXCEPT !.dirty = dirtyRevert(S1.dirty, diff)]
             ndl == NewId(S2.layers)
         IN  IF ~dirtyEmpty(S1.dirty) /\ cerr # ""
             THEN [S |-> S1, base |-> 0, err |-> cerr]
             ELSE
             [S |-> [S2 EXCEPT !.layers =
                        [i \in DOMAIN S2.layers \cup {ndl} |->
                           IF i = ndl
                           THEN newDiskLayer(diff.parent, S.layers[dl].diffid - 1)
                           ELSE S2.layers[i]]],
              base |-> ndl, err |-> ""]

\* Whether the freezer holds the reverse diffs lo..hi and each of them starts
\* from the root the one before it ends in.
Linked(f, lo, hi) ==
    /\ \A j \in lo..hi : j \in Stored(f)
    /\ \A j \in (lo + 1)..hi : f.items[j].parent = f.items[j - 1].root

\* snapDatabase.Recoverable: whether a contiguous chain of reverse diffs
\* leads from the disk layer to a state with the given root.
Recoverable(S, first, root) ==
    LET dl == S.layers[bottom(S, first)]
        f  == S.freezer
    IN  \E i \in 1..dl.diffid :
            /\ Linked(f, i, dl.diffid)
            /\ f.items[dl.diffid].root = dl.root
            /\ f.items[i].parent = convertEmpty(root)

\* The loop of Recover: revert the disk layer until its root is the one asked
\* for or its diffid is zero.
RECURSIVE RevertTo(_, _, _)
RevertTo(S, dl, root) ==
    LET d == loadReverseDiff(S, S.layers[dl].diffid)
        R == revert(S, dl, d.diff, S.layers[dl].diffid, "")
    IN  IF d.err # "" THEN [S |-> S, base |-> 0, err |-> "state-unrecoverable"]
        ELSE IF R.err # "" THEN R
        ELSE IF R.S.layers[R.base].root = root \/ R.S.layers[R.base].diffid = 0 THEN R
        ELSE RevertTo(R.S, R.base, root)

\* The freezer with the reverse diffs above an id dropped.
truncateFromHead(f, id) ==
    IF f.head <= id THEN f
    ELSE [attached |-> f.attached,
          history |-> [f.history EXCEPT
                         !.head = IF @ > id THEN id ELSE @],
          room  |-> f.room,
          tail  |-> IF f.tail > id THEN id ELSE f.tail,
          head  |-> id,
          items |-> [i \in {j \in Stored(f) : j <= id} |-> f.items[i]]]

\* snapDatabase.Recover: roll the disk layer back to the state with the given
\* root and discard every other layer.
Recover(S, first, root) ==
    IF ~Recoverable(S, first, root) THEN [S |-> S, err |-> "state-unrecoverable"]
    ELSE LET R == RevertTo(S, bottom(S, first), convertEmpty(root))
         IN  IF R.err # "" THEN [S |-> R.S, err |-> R.err]
             ELSE [S |-> [R.S EXCEPT
                            !.tree = newLayerTree(R.S.layers, R.base, NoNodes),
                            !.freezer = truncateFromHead(R.S.freezer,
                                                         R.S.layers[R.base].diffid)],
                   err |-> ""]

\* snapDatabase.Reset: wipe the reverse diffs, the journal and the layers and
\* start over from a disk layer with the given root, which has to be the
\* hash of the account-trie root node the key-value store holds.
Reset(S, root) ==
    IF ReadAccountTrieNode(S, <<>>).hash # root
    THEN [S |-> S, err |-> "state-mismatched"]
    ELSE LET ndl == NewId(S.layers)
         IN  [S |-> [S EXCEPT
                       !.layers = [i \in DOMAIN S.layers \cup {ndl} |->
                                     IF i = ndl THEN newDiskLayer(root, 0)
                                     ELSE S.layers[i]],
                       !.tree = newLayerTree([i \in {ndl} |-> newDiskLayer(root, 0)],
                                             ndl, NoNodes),
                       !.dirty = NoNodes,
                       !.kvHead = 0,
                       !.journal = FALSE,
                       !.freezer = [attached |-> S.freezer.attached,
                                    history |-> [S.freezer.history
                                                   EXCEPT !.head = 0],
                                    room |-> S.freezer.room,
                                    tail |-> 0,
                                    head |-> 0, items |-> [i \in {} |-> 0]]],
              err |-> ""]

\* -------------------------------------------------------------- journal

\* The diff layers from a layer down to the disk layer, top to bottom.
RECURSIVE DiffChain(_, _)
DiffChain(S, id) ==
    IF S.layers[id].kind = "diff"
    THEN <<id>> \o DiffChain(S, S.layers[id].parent)
    ELSE <<>>

\* The journal of a layer: the root and diffid of the disk layer below it
\* with the nodes the disk layer buffers, then the diff layers, top to
\* bottom.
journalOf(S, snap) ==
    LET disk  == S.layers[Bottom(S, snap)]
        chain == DiffChain(S, snap)
    IN  [diskRoot   |-> disk.root,
         diskDiffId |-> disk.diffid,
         dirty      |-> S.dirty,
         layers     |-> [n \in 1..Len(chain) |->
                           [root   |-> S.layers[chain[n]].root,
                            diffid |-> S.layers[chain[n]].diffid,
                            nodes  |-> S.layers[chain[n]].nodes]]]

\* snapDatabase.Journal: store the journal of the layer stored under a root
\* in the key-value store.  The variable journal records that a blob is
\* stored; the blob itself (rec) is handed to the open that reads it.
Journal(S, root) ==
    LET snap == get(S, root)
    IN  IF snap = 0 THEN [S |-> S, rec |-> <<>>, err |-> "snapshot-missing"]
        ELSE [S |-> [S EXCEPT !.journal = TRUE], rec |-> journalOf(S, snap), err |-> ""]

\* The layers of a journal: the disk layer as object 1, the diff layers
\* attached above it in reverse order, the lowest first.
loadJournal(rec) ==
    LET n == Len(rec.layers)
    IN  [i \in 1..(n + 1) |->
            IF i = 1 THEN newDiskLayer(rec.diskRoot, rec.diskDiffId)
            ELSE newDiffLayer(i - 1, rec.layers[n + 2 - i].root,
                              rec.layers[n + 2 - i].diffid, rec.layers[n + 2 - i].nodes)]

\* Close and open again: the layers are those of the journal, the tree is
\* built from the head layer down, the clean cache starts empty and the
\* reverse diffs above the disk layer are dropped.
Reopen(S, rec) ==
    LET L == loadJournal(rec)
    IN  [S EXCEPT
           !.layers = L,
           !.tree = newLayerTree(L, Len(rec.layers) + 1, NoNodes),
           !.dirty = rec.dirty,
           !.clean = [h \in {} |-> 0],
           !.freezer = truncateFromHead(S.freezer, rec.diskDiffId)]

\* Journal, Close and the open that follows; the store as it is if there is
\* no layer to journal.
JournalAndReopen(S, root) ==
    LET J == Journal(S, root)
    IN  IF J.err # "" THEN S ELSE Reopen(J.S, J.rec)

\* --------------------------------------------------------------- actions

\* The new values of the variables of the store.
Install(S) ==
    /\ IF S.layers = layers /\ S.tree = tree
       THEN UNCHANGED <<layers, tree>>
       ELSE LET C == Collect(S.layers, S.tree)
            IN  layers' = C.layers /\ tree' = C.tree
    /\ dirty' = S.dirty
    /\ cacheLimit' = S.limit
    /\ kv' = S.kv
    /\ kvHead' = S.kvHead
    /\ journal' = S.journal
    /\ clean' = S.clean
    /\ freezer' = S.freezer
    /\ UNCHANGED mergeVars
    /\ UNCHANGED procVars

\* Largest number of diff layers a Cap is asked to keep.
MaxKeep == 2

\* The roots a caller passes for a state: its root hash, and for the empty
\* state the zero hash as well as emptyRoot.
RootsOf(b) == IF b = 0 THEN {ZeroHash, emptyRoot} ELSE {Keccak(b)}

\* The node set of an Update to the state with root node b from the state of
\* parentRoot.
UpdateNodes(b, parentRoot) ==
    DirtyNodes(ViewOfRoot(convertEmpty(parentRoot)), ViewOf(b))

\* Whether an Update on top of parentRoot stays within the bound on diffids.
InBound(S, parentRoot) ==
    get(S, parentRoot) # 0 => S.layers[get(S, parentRoot)].diffid < MaxID

\* NewMergedNodeSet: a merged set that holds no NodeSet.
NewMergedNodeSet == [o \in {} |-> 0]

\* Before the first Merge.
InitMerged ==
    /\ sets = NewMergedNodeSet
    /\ merges = <<>>
    /\ call = [op |-> "none", done |-> FALSE]

\* The database after construction.
InitDatabase ==
    /\ layers = [i \in {1} |-> newDiskLayer(emptyRoot, 0)]
    /\ tree = [r \in {emptyRoot} |-> 1]
    /\ dirty = NoNodes
    /\ cacheLimit = DirtyLimit
    /\ kv = [k \in Keys |-> 0]
    /\ kvHead = 0
    /\ journal = FALSE
    /\ clean = [h \in {} |-> 0]
    /\ freezer = [attached |-> TRUE,
                  history |-> [attached |-> TRUE, head |-> 0],
                  room |-> MaxID,
                  tail |-> 0, head |-> 0,
                  items |-> [i \in {} |-> 0]]

\* No goroutine inside cap.
IdleCapper ==
    [pc |-> "idle", diff |-> 0, target |-> 0, stack |-> <<>>, locked |-> {},
     kept |-> {}, base |-> 0, force |-> FALSE, sound |-> TRUE, size |-> 0]

\* No goroutine inside a lookup.
IdleReader ==
    [pc |-> "idle", start |-> 0, at |-> 0, key |-> AccountRootKey, hash |-> ZeroHash,
     want |-> 0, held |-> {}, during |-> FALSE, kept |-> FALSE, sound |-> TRUE,
     err |-> "", blob |-> 0]

InitProcs ==
    /\ capper = IdleCapper
    /\ reader = IdleReader

Init ==
    /\ InitDatabase
    /\ InitMerged
    /\ InitProcs

\* snapDatabase.Update: add the diff layer of the state with root node b on
\* top of the layer stored under parentRoot.
Update ==
    \E b \in Blobs, parentRoot \in Hashes :
      \E root \in RootsOf(b) :
        LET R == add(Store, root, parentRoot, UpdateNodes(b, parentRoot))
        IN  /\ InBound(Store, parentRoot)
            /\ Install(R.S)

\* snapDatabase.Cap: flatten the layers below the k diff layers kept.
Cap ==
    \E root \in Hashes, k \in 1..MaxKeep :
        LET R == cap(Store, root, k)
        IN  /\ Install(R.S)

\* snapDatabase.Commit: cap(root, 0).
Commit ==
    \E root \in Hashes :
        LET R == cap(Store, root, 0)
        IN  /\ Install(R.S)

\* GetReader(root).NodeBlob: a read through the layer stored under a root.
Read ==
    \E root \in DOMAIN tree, key \in Keys, b \in 1..NBlobs :
        /\ get(Store, root) # 0
        /\ LET R == NodeBlob(Store, get(Store, root), key, Keccak(b))
           IN  /\ Install(R.S)

\* snapDatabase.Recover
RecoverTo ==
    \E root \in Hashes, first \in DOMAIN tree :
        LET R == Recover(Store, first, root)
        IN  /\ Install(R.S)

\* snapDatabase.Reset
ResetTo ==
    \E root \in Hashes :
        LET R == Reset(Store, root)
        IN  /\ Install(R.S)

\* snapDatabase.Journal, Close and the open that follows.
JournalReopen ==
    \E root \in Hashes :
        /\ Journal(Store, root).err = ""
        /\ Install(JournalAndReopen(Store, root))

Next ==
    \/ Update
    \/ Cap
    \/ Commit
    \/ Read
    \/ RecoverTo
    \/ ResetTo

Spec == Init /\ [][Next]_vars

\* The calls of a database that is journaled, closed and opened again, and
\* reset.
NextJournal ==
    \/ Update
    \/ Cap
    \/ Commit
    \/ ResetTo
    \/ JournalReopen

SpecJournal == Init /\ [][NextJournal]_vars

\* The calls that build the layers and flatten them, nothing else.
NextUpdateCap ==
    \/ Update
    \/ Cap
    \/ Commit

SpecUpdateCap == Init /\ [][NextUpdateCap]_vars

\* ------------------------------------------------------------ properties

\* The stores one call of Update, Cap, Commit, NodeBlob, Recover or Reset
\* leads to from the store S.
After(S) ==
    UNION {
        UNION {{add(S, root, p, UpdateNodes(b, p)).S : root \in RootsOf(b)} :
                  b \in Blobs, p \in Hashes},
        {cap(S, root, k).S : root \in Hashes, k \in 0..MaxKeep},
        {NodeBlob(S, S.tree[root], key, hash).S :
            root \in DOMAIN S.tree, key \in Keys, hash \in Hashes},
        {Recover(S, first, root).S : first \in DOMAIN S.tree, root \in Hashes},
        {Reset(S, root).S : root \in Hashes}}

\* Number of diff layers on the parent chain of a layer, itself included.
Diffs(S, id) == Cardinality({i \in Chain(S.layers, id) : S.layers[i].kind = "diff"})

\* Whether the tree is one chain with the given layer at its head: its layers
\* are the layers of the chain, each stored under its own root.
IsChain(S, head) ==
    /\ DOMAIN S.tree = {S.layers[i].root : i \in Chain(S.layers, head)}
    /\ \A i \in Chain(S.layers, head) : S.tree[S.layers[i].root] = i

\* C1 as stated: right after a successful Cap(root, k) with k >= 1 the tree
\* holds at most k + 1 layers in total, the disk layer included.
C1_AtMostKPlusOneLayers ==
    \A root \in Hashes, k \in 1..MaxKeep :
        LET R == cap(Store, root, k)
        IN  R.err = "" => Cardinality(DOMAIN R.S.tree) <= k + 1

\* C1 amended: right after a successful Cap(root, k) with k >= 1 the parent
\* chain of the layer of root holds at most k diff layers above one disk
\* layer; the tree as a whole holds at most k + 1 layers if it was a single
\* chain with the layer of root at its head.
C1_ChainAtMostKDiffs ==
    \A root \in Hashes, k \in 1..MaxKeep :
        LET snap == get(Store, root)
            R    == cap(Store, root, k)
        IN  R.err = "" =>
              /\ Diffs(R.S, snap) <= k
              /\ R.S.layers[Bottom(R.S, snap)].kind = "disk"
              /\ IsChain(Store, snap) => Cardinality(DOMAIN R.S.tree) <= k + 1

\* A Cap that flattens: the chain of root is longer than k diff layers
\* before it and holds exactly k after it.
C1_Witness ==
    \E root \in Hashes, k \in 1..MaxKeep :
        LET snap == get(Store, root)
            R    == cap(Store, root, k)
        IN  /\ R.err = ""
            /\ Diffs(Store, snap) > k
            /\ Diffs(R.S, snap) = k

\* C2 as stated: Commit(root) for a root present in the tree leaves exactly
\* one layer, a disk layer whose Root() is root, with the dirty cache flushed
\* and the account-trie root node in the key-value store hashing to root.
C2_CommitLeavesOneDiskLayer ==
    \A root \in Hashes :
        get(Store, root) # 0 =>
            LET R == cap(Store, root, 0)
            IN  /\ Cardinality(DOMAIN R.S.tree) = 1
                /\ \A r \in DOMAIN R.S.tree :
                     /\ R.S.layers[R.S.tree[r]].kind = "disk"
                     /\ R.S.layers[R.S.tree[r]].root = root
                /\ dirtyEmpty(R.S.dirty)
                /\ ReadAccountTrieNode(R.S, <<>>).hash = root

\* C2 amended: Commit(root) on the root of the disk layer is rejected and
\* changes nothing; a Commit(root) that succeeds leaves exactly one layer, a
\* disk layer that is not stale and whose Root() is root (emptyRoot for the
\* zero hash), with the dirty cache empty, the persistent diffid that of the
\* layer, and the account-trie root node in the key-value store hashing to
\* root, or absent if root is the empty root.
C2_CommitOfDiffLayer ==
    \A root \in Hashes :
        LET snap == get(Store, root)
            R    == cap(Store, root, 0)
        IN  /\ snap # 0 /\ Store.layers[snap].kind = "disk" =>
                 R.err = "is-disk-layer" /\ R.S = Store
            /\ R.err = "" =>
                 /\ DOMAIN R.S.tree = {convertEmpty(root)}
                 /\ LET dl == R.S.layers[R.S.tree[convertEmpty(root)]]
                    IN  /\ dl.kind = "disk"
                        /\ ~dl.stale
                        /\ dl.root = convertEmpty(root)
                        /\ dl.diffid = Store.layers[snap].diffid
                        /\ R.S.kvHead = dl.diffid
                 /\ dirtyEmpty(R.S.dirty)
                 /\ ReadAccountTrieNode(R.S, <<>>).hash =
                      IF convertEmpty(root) = emptyRoot THEN ZeroHash ELSE root

\* A Commit that succeeds on a chain of two diff layers or more, with nodes
\* still buffered in the dirty cache.
C2_Witness ==
    \E root \in Hashes :
        /\ cap(Store, root, 0).err = ""
        /\ Diffs(Store, get(Store, root)) >= 2
        /\ ~dirtyEmpty(cap(Store, root, 1).S.dirty)

\* Every lookup made directly on a layer fails with snapshot-stale, returns
\* no data and leaves the store as it is.
StaleAnswers(S, id) ==
    \A key \in Keys, hash \in Hashes :
        LET n == node(S, id, key, hash)
            b == NodeBlob(S, id, key, hash)
        IN  /\ n.err = "snapshot-stale" /\ ~n.found /\ n.S = S
            /\ b.err = "snapshot-stale" /\ b.blob = 0 /\ b.S = S

\* C3: once the stale flag of a layer is set (by commit, revert or
\* MarkStale) no operation clears it, and every lookup made directly on the
\* layer, then and after any further operation, fails with snapshot-stale
\* and returns no data.
C3_StaleIsForever ==
    /\ \A id \in DOMAIN layers :
         LET S1 == IF layers[id].stale THEN Store ELSE MarkStale(Store, id).S
         IN  /\ StaleAnswers(S1, id)
             /\ \A S2 \in After(S1) :
                  /\ id \in DOMAIN S2.layers
                  /\ S2.layers[id].stale
                  /\ StaleAnswers(S2, id)
    /\ \A S2 \in After(Store) :
         \A id \in DOMAIN S2.layers :
            S2.layers[id].stale => StaleAnswers(S2, id)

\* A disk layer made stale by a commit is still below a layer of the tree,
\* and a read through that layer of the tree ends in snapshot-stale.
C3_Witness ==
    \E root \in DOMAIN tree, key \in Keys, hash \in Hashes :
        /\ layers[Bottom(Store, tree[root])].stale
        /\ NodeBlob(Store, tree[root], key, hash).err = "snapshot-stale"

\* C4 as stated: a diff layer obtained with get(root) and then flattened into
\* the disk layer by Commit(headRoot) answers every later Node call with
\* snapshot-stale.
C4_HeldDiffLayerGoesStale ==
    \A root \in Hashes, head \in Hashes :
        LET held == get(Store, root)
            R    == cap(Store, head, 0)
        IN  (/\ held # 0
             /\ Store.layers[held].kind = "diff"
             /\ R.err = ""
             /\ held \in Chain(Store.layers, get(Store, head)))
            => \A key \in Keys, hash \in Hashes :
                  node(R.S, held, key, hash).err = "snapshot-stale"

\* The blob of the most recent write to a key on the chain from a layer down
\* to the disk layer: nearest layer first, then the dirty cache, then the
\* key-value store; 0 if that write is a deletion or there is none.
RECURSIVE Latest(_, _, _)
Latest(S, id, key) ==
    IF S.layers[id].kind = "diff"
    THEN IF key \in DOMAIN S.layers[id].nodes
         THEN S.layers[id].nodes[key].blob
         ELSE Latest(S, S.layers[id].parent, key)
    ELSE IF key \in DOMAIN S.dirty THEN S.dirty[key].blob ELSE S.kv[key]

\* C5 as stated: NodeBlob through the head layer returns the blob of the
\* most recent write to the node on the chain from the head down to the disk
\* layer, if that write is no deletion and the hash asked for is its hash.
\* The write counts only if the state of the head root holds the node too.
C5_HeadReadsLatestWrite ==
    \A root \in DOMAIN tree, key \in Keys :
        LET b == Latest(Store, tree[root], key)
            r == NodeBlob(Store, tree[root], key, Keccak(b))
        IN  b # 0 /\ b = ViewOfRoot(root)[key] => r.err = "" /\ r.blob = b

\* The disk layers below the layers of the tree that are not stale.
DiskLayers(S) ==
    {id \in {Bottom(S, S.tree[r]) : r \in DOMAIN S.tree} : ~S.layers[id].stale}

\* Whether root is the root of a state below the disk layer dl that the
\* retained reverse diffs lead to from dl.
Below(S, dl, root) ==
    \E i \in 1..S.layers[dl].diffid :
        /\ Linked(S.freezer, i, S.layers[dl].diffid)
        /\ S.freezer.items[S.layers[dl].diffid].root = S.layers[dl].root
        /\ S.freezer.items[i].parent = convertEmpty(root)

\* Whether every read through the layer id returns the blob the state of
\* root holds under the key if the hash asked for is the hash of that blob,
\* and nothing otherwise.
ReadsState(S, id, root) ==
    \A key \in Keys, b \in 1..NBlobs :
        NodeBlob(S, id, key, Keccak(b)).blob =
            IF ViewOfRoot(convertEmpty(root))[key] = b THEN b ELSE 0

\* C6 as stated: Recover(r) for a root r below the disk layer whose reverse
\* diffs are retained succeeds and leaves exactly one layer, a disk layer
\* with root r (emptyRoot for the zero hash), and a reader on it returns
\* exactly the blobs the state r held and nothing for the nodes r does not
\* hold.
C6_RecoverRestoresState ==
    \A r \in Hashes, first \in DOMAIN tree, dl \in DiskLayers(Store) :
        Below(Store, dl, r) =>
            LET R == Recover(Store, first, r)
            IN  /\ R.err = ""
                /\ DOMAIN R.S.tree = {convertEmpty(r)}
                /\ R.S.layers[R.S.tree[convertEmpty(r)]].kind = "disk"
                /\ R.S.layers[R.S.tree[convertEmpty(r)]].root = convertEmpty(r)
                /\ ReadsState(R.S, R.S.tree[convertEmpty(r)], r)

\* The nodes a read through the disk layer finds: the dirty cache over the
\* key-value store.
DiskView(S) ==
    [k \in Keys |-> IF k \in DOMAIN S.dirty THEN S.dirty[k].blob ELSE S.kv[k]]

C10_ReverseDiffsContinuousFromEmpty ==
    \A dl \in DiskLayers(Store) :
        LET id == layers[dl].diffid
        IN  /\ \A i \in Stored(freezer) : i <= id
            /\ \A i \in Stored(freezer) :
                  freezer.items[i].parent =
                      IF i = freezer.tail + 1 THEN emptyRoot
                      ELSE freezer.items[i - 1].root
            /\ id >= 1 => id \in Stored(freezer) /\ freezer.items[id].root = layers[dl].root

\* C10 amended: the layers of the tree stand on at most one disk layer that
\* is not stale, and if there is one the stored reverse diffs are those with
\* the ids from the tail of the freezer up to the diffid of that disk layer,
\* at most as many as the retention limit allows; each has Parent equal to the Root of the one before it, the
\* reverse diff 1, as long as it is retained, has Parent == emptyRoot, and
\* the one at the diffid of the disk layer has the root of the disk layer as
\* its Root.  The persistent diffid is never ahead of the disk layer.
C10_ReverseDiffsContinuousInWindow ==
    /\ Cardinality(DiskLayers(Store)) <= 1
    /\ \A dl \in DiskLayers(Store) :
        LET id == layers[dl].diffid
        IN  /\ freezer.head = id
            /\ freezer.tail <= id
            /\ id - freezer.tail <= StateLimit
            /\ DOMAIN freezer.items = Stored(freezer)
            /\ Linked(freezer, freezer.tail + 1, id)
            /\ 1 \in Stored(freezer) => freezer.items[1].parent = emptyRoot
            /\ id >= 1 => id \in Stored(freezer) /\ freezer.items[id].root = layers[dl].root
            /\ kvHead <= id

\* The freezer after a commit that pruned: the reverse diff 1 is gone and
\* two reverse diffs or more are stored.
C10_Witness ==
    /\ freezer.tail >= 1
    /\ freezer.head >= freezer.tail + 2
    /\ \E dl \in DiskLayers(Store) : layers[dl].diffid = freezer.head

\* What the tree shows of a layer: its kind, diffid and nodes and the root
\* of its parent (the zero hash for the disk layer).
Shown(S, id) ==
    [kind   |-> S.layers[id].kind,
     diffid |-> S.layers[id].diffid,
     nodes  |-> S.layers[id].nodes,
     parent |-> IF S.layers[id].parent = 0 THEN ZeroHash
                ELSE S.layers[S.layers[id].parent].root]

\* The tree as a map from the roots to what it shows of their layers.
Shape(S) == [r \in DOMAIN S.tree |-> Shown(S, S.tree[r])]

\* Whether every node of the layer id that is no deletion reads back
\* through the layer stored under the root of that layer in the store S2.
ReadsBack(S, id, S2) ==
    /\ get(S2, S.layers[id].root) # 0
    /\ \A key \in DOMAIN S.layers[id].nodes :
         LET n == S.layers[id].nodes[key]
             r == NodeBlob(S2, get(S2, S.layers[id].root), key, n.hash)
         IN  n.blob # 0 => r.err = "" /\ r.blob = n.blob

\* Whether no layer of the tree has the layer id as its parent.
IsHead(S, id) == \A r \in DOMAIN S.tree : S.layers[S.tree[r]].parent # id

Parentless(S) == {Bottom(S, S.tree[r]) : r \in DOMAIN S.tree}

\* C11 as stated: exactly one layer reachable from the map of the tree has
\* no parent, and bottom() returns that layer whichever entry of the map its
\* walk starts from.
C11_OneBottomLayer ==
    /\ Cardinality(Parentless(Store)) = 1
    /\ \A first \in DOMAIN tree, other \in DOMAIN tree :
          bottom(Store, first) = bottom(Store, other)

\* The node sets handed to add: those of the Updates between two states.
NodeSets == {UpdateNodes(b, p) : b \in Blobs, p \in Hashes}

\* C12: after a successful Update(root, parent, nodes), get(root) is a diff
\* layer that is not stale and holds exactly nodes, its root is root and the
\* root of its parent is parent, the zero hash standing for emptyRoot in
\* both, and its diffid is that of the parent plus one.
C12_UpdateLinksToParent ==
    \A root \in Hashes, parentRoot \in Hashes, nodes \in NodeSets :
        LET R == add(Store, root, parentRoot, nodes)
        IN  R.err = "" =>
              LET id == get(R.S, root)
              IN  /\ id # 0
                  /\ R.S.layers[id].kind = "diff"
                  /\ ~R.S.layers[id].stale
                  /\ R.S.layers[id].nodes = nodes
                  /\ R.S.layers[id].root = convertEmpty(root)
                  /\ R.S.layers[id].parent = get(Store, parentRoot)
                  /\ R.S.layers[R.S.layers[id].parent].root = convertEmpty(parentRoot)
                  /\ R.S.layers[id].diffid = R.S.layers[R.S.layers[id].parent].diffid + 1

\* An Update with the zero hash as root on top of a diff layer succeeds and
\* takes the entry another layer had under emptyRoot.
C12_Witness ==
    \E parentRoot \in Hashes, nodes \in NodeSets :
        /\ add(Store, ZeroHash, parentRoot, nodes).err = ""
        /\ nodes # NoNodes
        /\ layers[get(Store, parentRoot)].kind = "diff"
        /\ get(Store, emptyRoot) # 0

\* C13: the zero hash and emptyRoot name the same layer: get returns the
\* same layer for both, add and cap do the same with the zero hash as with
\* emptyRoot for the root and for the parent root, and neither of them
\* stores a layer under the zero hash or gives a layer the zero hash as root.
C13_ZeroHashIsEmptyRoot ==
    /\ get(Store, ZeroHash) = get(Store, emptyRoot)
    /\ \A other \in Hashes, nodes \in NodeSets :
         /\ add(Store, ZeroHash, other, nodes) = add(Store, emptyRoot, other, nodes)
         /\ add(Store, other, ZeroHash, nodes) = add(Store, other, emptyRoot, nodes)
    /\ \A k \in 0..MaxKeep : cap(Store, ZeroHash, k) = cap(Store, emptyRoot, k)
    /\ \A S2 \in {add(Store, root, p, nodes).S :
                      root \in Hashes, p \in Hashes, nodes \in NodeSets}
                  \cup {cap(Store, root, k).S : root \in Hashes, k \in 0..MaxKeep} :
         /\ ZeroHash \in DOMAIN S2.tree => ZeroHash \in DOMAIN tree
         /\ \A i \in DOMAIN S2.layers \ DOMAIN layers : S2.layers[i].root # ZeroHash

\* The layer of the empty state is a diff layer that get finds under the
\* zero hash, and a cap on the zero hash flattens the layers below it.
C13_Witness ==
    /\ get(Store, ZeroHash) # 0
    /\ layers[get(Store, ZeroHash)].kind = "diff"
    /\ cap(Store, ZeroHash, 1).err = ""
    /\ cap(Store, ZeroHash, 1).S # Store
    /\ add(Store, Keccak(1), ZeroHash, NoNodes).err = ""

\* C14: add returns an error and leaves the store as it is if root equals
\* parentRoot after the normalisation of the zero hash (snapshot cycle) and
\* if no layer is stored under parentRoot (parent missing); it succeeds
\* otherwise.
C14_AddRejectsCycleAndMissingParent ==
    \A root \in Hashes, parentRoot \in Hashes, nodes \in NodeSets :
        LET R == add(Store, root, parentRoot, nodes)
        IN  /\ convertEmpty(root) = convertEmpty(parentRoot) =>
                 R.err = "snapshot-cycle" /\ R.S = Store
            /\ (convertEmpty(root) # convertEmpty(parentRoot) /\ get(Store, parentRoot) = 0) =>
                 R.err = "parent-missing" /\ R.S = Store
            /\ (convertEmpty(root) # convertEmpty(parentRoot) /\ get(Store, parentRoot) # 0) =>
                 R.err = "" /\ R.S # Store

\* A tree with diff layers in which add(Hash{}, emptyRoot) is a cycle on a
\* layer that is there, an add on a root that is not there misses its
\* parent, and a third add succeeds.
C14_Witness ==
    /\ Cardinality(DOMAIN tree) >= 2
    /\ get(Store, emptyRoot) # 0
    /\ add(Store, ZeroHash, emptyRoot, NoNodes).err = "snapshot-cycle"
    /\ \E root \in Hashes, parentRoot \in Hashes :
         add(Store, root, parentRoot, NoNodes).err = "parent-missing"
    /\ \E root \in Hashes, parentRoot \in Hashes :
         add(Store, root, parentRoot, NoNodes).err = ""

\* C15: the diffid of every diff layer is the diffid of its parent plus one,
\* so that the diffids grow strictly from the disk layer upwards along every
\* parent chain, for the layers of the tree and for the layers they stand
\* on, on every branch, and a layer without parent is a disk layer.
C15_DiffidIsParentPlusOne ==
    \A i \in DOMAIN layers :
        /\ layers[i].kind = "diff" =>
              /\ layers[i].parent \in DOMAIN layers
              /\ layers[i].diffid = layers[layers[i].parent].diffid + 1
        /\ layers[i].kind = "disk" => layers[i].parent = 0

\* After a cap: a diff layer stands on a disk layer that is not stale and
\* has a diffid of one or more, and a diff layer of another branch stands on
\* a disk layer that is stale.
C15_Witness ==
    \E i \in DOMAIN layers, j \in DOMAIN layers :
        /\ layers[i].kind = "diff" /\ layers[j].kind = "diff"
        /\ layers[layers[i].parent].kind = "disk"
        /\ ~layers[layers[i].parent].stale
        /\ layers[layers[i].parent].diffid >= 1
        /\ layers[layers[j].parent].kind = "disk"
        /\ layers[layers[j].parent].stale

\* C16 as stated: the parent of every diff layer stored in the tree is the
\* very layer the tree stores under the root of that parent.
C16_ParentIsInTree ==
    \A r \in DOMAIN tree :
        layers[tree[r]].kind = "diff" =>
            LET parent == layers[tree[r]].parent
            IN  get(Store, layers[parent].root) = parent

\* C17 as stated: after a cap no layer of the tree is stale, no layer on the
\* parent chain of a layer of the tree is stale, and no lookup through a
\* layer that get returns ends in snapshot-stale.
C17_NoStaleLayerBelowTree ==
    \A root \in Hashes, k \in 0..MaxKeep :
        LET R == cap(Store, root, k)
        IN  R.err = "" =>
              \A r \in DOMAIN R.S.tree :
                  /\ \A i \in Chain(R.S.layers, R.S.tree[r]) :
                        ~R.S.layers[i].stale
                  /\ \A key \in Keys, hash \in Hashes :
                        get(R.S, r) # 0 =>
                          NodeBlob(R.S, get(R.S, r), key, hash).err # "snapshot-stale"

\* ------------------------------------------------------------ MergedNodeSet

\* Largest number of Merge calls on one merged set.
MaxMerges == 4

\* Number of trie owners besides the account trie.
NOwners == 2

\* Trie owners: zero for the account trie, an account hash for a storage trie.
Owners == 0..NOwners

\* NewNodeSet plus the nodes marked in it: the dirty nodes of one trie, path
\* -> blob.
NodeSetOf(owner, blob) == [owner |-> owner, nodes |-> [path \in {1} |-> blob]]

\* The NodeSets handed to Merge.
MergeInputs == {NodeSetOf(o, b) : o \in Owners, b \in Blobs}

\* A merged set with one more NodeSet stored under its owner.
WithSet(m, other) ==
    [o \in DOMAIN m \cup {other.owner} |-> IF o = other.owner THEN other ELSE m[o]]

\* Merge that stores the set whether or not the owner is present.
MergeOverwriting(m, other) == [err |-> "", sets |-> WithSet(m, other)]

\* MergedNodeSet.Merge: refuse a second set of an owner, else store it.
Merge(m, other) ==
    IF other.owner \in DOMAIN m
    THEN [err |-> "duplicate-trie", sets |-> m]
    ELSE [err |-> "", sets |-> WithSet(m, other)]

\* NewWithNodeSet: a merged set constructed from a single NodeSet.
NewWithNodeSet(set) == Merge(NewMergedNodeSet, set).sets

\* A call of Merge on the merged set.
MergeSet ==
    \E other \in MergeInputs :
        /\ Len(merges) < MaxMerges
        /\ sets' = Merge(sets, other).sets
        /\ merges' = Append(merges, other)
        /\ UNCHANGED <<layers, tree, dirty, cacheLimit, kv, kvHead, journal, clean, freezer>>
        /\ UNCHANGED <<call, procVars>>

\* A merged set constructed anew from one NodeSet.
NewWith ==
    \E set \in MergeInputs :
        /\ sets' = NewWithNodeSet(set)
        /\ merges' = <<set>>
        /\ UNCHANGED <<layers, tree, dirty, cacheLimit, kv, kvHead, journal, clean, freezer>>
        /\ UNCHANGED <<call, procVars>>

NextMerge ==
    \/ MergeSet
    \/ NewWith

SpecMerge == Init /\ [][NextMerge]_vars

\* The owners a NodeSet was handed to Merge for.
MergedOwners == {merges[i].owner : i \in 1..Len(merges)}

\* The first NodeSet handed to Merge for an owner.
FirstMerged(o) ==
    merges[CHOOSE i \in 1..Len(merges) :
              /\ merges[i].owner = o
              /\ \A j \in 1..(i - 1) : merges[j].owner # o]

\* C18: Merge returns an error and leaves the merged set as it was when a
\* NodeSet of the same owner was merged before; otherwise it returns no
\* error and stores the set under its owner, leaving the other owners
\* alone; after any sequence of Merges the merged set holds, for exactly
\* the owners merged, the first NodeSet merged for each.
C18_MergeKeepsFirstSet ==
    /\ DOMAIN sets = MergedOwners
    /\ \A o \in MergedOwners : sets[o] = FirstMerged(o)
    /\ \A other \in MergeInputs :
          LET R == Merge(sets, other)
          IN  IF other.owner \in MergedOwners
              THEN R.err # "" /\ R.sets = sets
              ELSE /\ R.err = ""
                   /\ DOMAIN R.sets = DOMAIN sets \cup {other.owner}
                   /\ R.sets[other.owner] = other
                   /\ \A o \in DOMAIN sets : R.sets[o] = sets[o]

\* An owner was merged twice with different sets, and another owner once.
C18_Witness ==
    \E i \in 1..Len(merges), j \in 1..Len(merges) :
        /\ i < j
        /\ merges[i].owner = merges[j].owner
        /\ merges[i] # merges[j]
        /\ sets[merges[i].owner] = merges[i]
        /\ Cardinality(DOMAIN sets) > 1

\* --------------------------------------------------- cap beside a reader

\* The new values of the variables of the store, the heap as it is.
SetStore(S) ==
    /\ layers' = S.layers
    /\ tree' = S.tree
    /\ dirty' = S.dirty
    /\ cacheLimit' = S.limit
    /\ kv' = S.kv
    /\ kvHead' = S.kvHead
    /\ journal' = S.journal
    /\ clean' = S.clean
    /\ freezer' = S.freezer
    /\ UNCHANGED mergeVars

\* A step of a goroutine. The heap is collected once no goroutine holds a
\* reference into it.
Step(S, c, r) ==
    /\ capper' = c
    /\ reader' = r
    /\ \E X \in {S} :
          IF c.pc = "idle" /\ r.pc = "idle"
          THEN \E C \in {Collect(X.layers, X.tree)} :
                  SetStore([X EXCEPT !.layers = C.layers, !.tree = C.tree])
          ELSE SetStore(X)

\* snapDatabase.Update between the caps and the lookups followed step by
\* step.
UpdateBeside ==
    \E b \in Blobs, parentRoot \in Hashes :
      \E root \in RootsOf(b) :
        LET R == add(Store, root, parentRoot, UpdateNodes(b, parentRoot))
        IN  /\ capper.pc = "idle"
            /\ reader.pc = "idle"
            /\ InBound(Store, parentRoot)
            /\ R.S # Store
            /\ Step(R.S, capper, reader)

\* The layers a cap keeps: those from the layer of its root down to the
\* lowest diff layer kept.
KeptLayers(S, snap, diff) == Chain(S.layers, snap) \ Chain(S.layers, S.layers[diff].parent)

\* Whether no layer on the parent chain of a layer is stale.
Sound(S, id) == \A i \in Chain(S.layers, id) : ~S.layers[i].stale

\* cap up to the point where it has something to flatten: the lookup of the
\* root, the lock of the tree and the dive.
CapBegin ==
    \E root \in Hashes, n \in 0..MaxKeep :
        LET snap == get(Store, root)
            diff == IF n = 0 THEN snap ELSE Dive(Store, snap, n - 1)
            kept == IF n = 0 THEN {} ELSE KeptLayers(Store, snap, diff)
        IN  /\ capper.pc = "idle"
            /\ snap # 0
            /\ layers[snap].kind = "diff"
            /\ diff # 0
            /\ n > 0 => layers[layers[diff].parent].kind = "diff"
            /\ Step(Store,
                    [pc |-> IF n = 0 THEN "persist" ELSE "lock",
                     diff |-> diff,
                     target |-> IF n = 0 THEN diff ELSE layers[diff].parent,
                     stack |-> <<>>, locked |-> {}, kept |-> kept, base |-> 0,
                     force |-> (n = 0), sound |-> Sound(Store, snap), size |-> 0],
                    IF reader.pc = "idle" THEN reader
                    ELSE [reader EXCEPT !.during = TRUE,
                                        !.kept = @ /\ reader.start \in kept])

\* cap: diff.lock.Lock(), which waits for the readers inside the layer.
CapLock ==
    /\ capper.pc = "lock"
    /\ capper.diff \notin reader.held
    /\ Step(Store, [capper EXCEPT !.pc = "persist", !.locked = {capper.diff}], reader)

\* persist of a layer above another diff layer: lock it and go down.
CapDescend ==
    /\ capper.pc = "persist"
    /\ layers[layers[capper.target].parent].kind = "diff"
    /\ capper.target \notin reader.held
    /\ Step(Store,
            [capper EXCEPT !.locked = @ \cup {capper.target},
                           !.stack = Append(@, capper.target),
                           !.target = layers[capper.target].parent],
            reader)

\* persist that goes on with the layer above without linking it to the new
\* disk layer.
PersistedNoRelink(R) ==
    IF R.err # "" THEN Step(R.S, IdleCapper, reader)
    ELSE IF capper.stack = <<>>
    THEN Step(R.S, [capper EXCEPT !.pc = "relink", !.base = R.base], reader)
    ELSE LET dl == capper.stack[Len(capper.stack)]
         IN  Step(R.S,
                  [capper EXCEPT !.pc = "persist",
                                 !.locked = @ \ {dl},
                                 !.stack = SubSeq(@, 1, Len(@) - 1),
                                 !.target = dl],
                  reader)

\* persist after diffToDisk returned R: an error goes up to the caller of
\* cap, every lock released on the way; else the layer above, if persist
\* holds one, is linked to the new disk layer and unlocked, and is the next
\* to go to disk; else cap goes on with the new disk layer.
Persisted(R) ==
    IF R.err # "" THEN Step(R.S, IdleCapper, reader)
    ELSE IF capper.stack = <<>>
    THEN Step(R.S, [capper EXCEPT !.pc = "relink", !.base = R.base], reader)
    ELSE LET dl == capper.stack[Len(capper.stack)]
         IN  Step([R.S EXCEPT !.layers[dl].parent = R.base],
                  [capper EXCEPT !.pc = "persist",
                                 !.locked = @ \ {dl},
                                 !.stack = SubSeq(@, 1, Len(@) - 1),
                                 !.target = dl],
                  reader)

\* persist of a layer above the disk layer: diffToDisk under the lock of the
\* disk layer; then the layer above, if persist holds one, is linked to the
\* new disk layer and unlocked, and is the next to go to disk.
CapCommit ==
    /\ capper.pc = "persist"
    /\ layers[layers[capper.target].parent].kind = "disk"
    /\ layers[capper.target].parent \notin reader.held
    /\ Persisted(diffToDisk(Store, capper.target, capper.force))

\* cap that returns without diff.lock.Unlock().
CapRelinkHolding ==
    /\ capper.pc = "relink"
    /\ LET base == capper.base
           S1   == IF capper.force
                   THEN [Store EXCEPT !.tree = [r \in {layers[base].root} |-> base]]
                   ELSE removeStale([Store EXCEPT
                            !.tree = Put(tree, layers[base].root, base),
                            !.layers[capper.diff].parent = base])
       IN  Step(S1, [IdleCapper EXCEPT !.locked = capper.locked], reader)

\* cap after persist: store the new disk layer, link the lowest kept diff
\* layer to it and unlock it, remove what is stale; a full commit replaces
\* the tree.
CapRelink ==
    /\ capper.pc = "relink"
    /\ LET base == capper.base
           S1   == IF capper.force
                   THEN [Store EXCEPT !.tree = [r \in {layers[base].root} |-> base]]
                   ELSE removeStale([Store EXCEPT
                            !.tree = Put(tree, layers[base].root, base),
                            !.layers[capper.diff].parent = base])
       IN  Step(S1, IdleCapper, reader)

\* A lookup through a layer of the tree of a node the state of the layer
\* holds, by the hash it has there.
ReadBegin ==
    \E root \in DOMAIN tree, key \in Keys :
        LET start == tree[root]
            want  == ViewOfRoot(layers[start].root)[key]
        IN  /\ reader.pc = "idle"
            /\ want # 0
            /\ Step(Store, capper,
                    [pc |-> "run", start |-> start, at |-> start, key |-> key,
                     hash |-> Keccak(want), want |-> want, held |-> {},
                     during |-> (capper.pc # "idle"),
                     kept |-> (capper.pc # "idle" => start \in capper.kept),
                     sound |-> IF capper.pc = "idle" THEN Sound(Store, start)
                               ELSE capper.sound,
                     err |-> "", blob |-> 0])

\* diffLayer.node in a layer that is not stale and does not hold the node:
\* take the read lock and go on in the parent, the lock still held.
ReadDescend ==
    /\ reader.pc = "run"
    /\ reader.at \notin capper.locked
    /\ layers[reader.at].kind = "diff"
    /\ ~layers[reader.at].stale
    /\ reader.key \notin DOMAIN layers[reader.at].nodes
    /\ Step(Store, capper,
            [reader EXCEPT !.held = @ \cup {reader.at}, !.at = layers[reader.at].parent])

\* diskLayer.node: dl.lock.RLock().
ReadLockDisk ==
    /\ reader.pc = "run"
    /\ layers[reader.at].kind = "disk"
    /\ Step(Store, capper, [reader EXCEPT !.pc = "disk", !.held = @ \cup {reader.at}])

\* The answer of the lookup to its caller, every read lock released.
Answer(R) ==
    Step(R.S, capper, [reader EXCEPT !.pc = "done", !.held = {}, !.err = R.err, !.blob = R.blob])

\* diffLayer.node in a layer that is stale or holds the node.
ReadDiff ==
    /\ reader.pc = "run"
    /\ reader.at \notin capper.locked
    /\ layers[reader.at].kind = "diff"
    /\ layers[reader.at].stale \/ reader.key \in DOMAIN layers[reader.at].nodes
    /\ Answer(NodeBlob(Store, reader.at, reader.key, reader.hash))

\* diskLayer.node under the read lock of the disk layer.
ReadDisk ==
    /\ reader.pc = "disk"
    /\ \E seen \in IF capper.pc = "reset" /\ capper.target = reader.at
                    THEN {dirty, NoNodes} ELSE {dirty} :
          LET R == NodeBlob([Store EXCEPT !.dirty = seen], reader.at, reader.key,
                            reader.hash)
          IN  Answer([R EXCEPT !.S.dirty = dirty])

\* The caller takes the answer.
ReadReturn ==
    /\ reader.pc = "done"
    /\ Step(Store, capper, IdleReader)

NextCapRead ==
    \/ UpdateBeside
    \/ CapBegin
    \/ CapLock
    \/ CapDescend
    \/ CapCommit
    \/ CapRelink
    \/ ReadBegin
    \/ ReadDescend
    \/ ReadLockDisk
    \/ ReadDiff
    \/ ReadDisk
    \/ ReadReturn

SpecCapRead == Init /\ [][NextCapRead]_vars

\* C19 as stated: a lookup that starts at a layer a cap keeps and runs while
\* the cap does never returns snapshot-stale and never a blob other than the
\* one the state of its layer holds.
C19_KeptReadsDuringCap ==
    (reader.pc = "done" /\ reader.during /\ reader.kept) =>
        /\ reader.err # "snapshot-stale"
        /\ reader.err = "" => reader.blob = reader.want

\* What the locks of cap do give: a lookup that starts at a layer a cap
\* keeps and runs while the cap does, where no layer on the parent chain was
\* stale when the lookup or, if it came first, the cap began, returns no
\* error and the blob the state of its layer holds.
KeptReadsOfSoundChain ==
    (reader.pc = "done" /\ reader.during /\ reader.kept /\ reader.sound) =>
        /\ reader.err = ""
        /\ reader.blob = reader.want

\* ------------------------------------------------ commit step by step

\* commit that marks the disk layer stale and appends no reverse diff.
commitStoreNoAppend(S, dl, bottomDiff) ==
    [S |-> [S EXCEPT !.layers[dl].stale = TRUE], err |-> ""]

\* commitStore that leaves the disk layer as it is and stores the reverse
\* diff only.
commitStoreNotStale(S, dl, bottomDiff) ==
    LET R == storeReverseDiff(S, bottomDiff, StateLimit)
    IN  [S |-> R.S, err |-> R.err]

\* The first half of diskLayer.commit: mark the disk layer stale and store
\* the reverse diff of the bottom-most diff layer.
commitStore(S, dl, bottomDiff) ==
    LET S1 == [S EXCEPT !.layers[dl].stale = TRUE]
        R0 == IF S1.freezer.attached THEN storeReverseDiff(S1, bottomDiff, StateLimit)
              ELSE [S |-> S1, err |-> ""]
        R  == IF R0.err = "" /\ S1.freezer.history.attached
              THEN storeStateHistory(R0.S, bottomDiff) ELSE R0
    IN  [S |-> R.S, err |-> R.err]

\* The second half of diskLayer.commit: the new disk layer over the cache
\* with the nodes of the diff layer merged, and the flush if one is due.
commitFlush(S, dl, bottomDiff, force) ==
    LET slim == [k \in DOMAIN S.layers[bottomDiff].nodes |->
                    unwrap(S.layers[bottomDiff].nodes[k])]
        ndl  == NewId(S.layers)
        S2   == [S EXCEPT
                   !.layers = [i \in DOMAIN S.layers \cup {ndl} |->
                                 IF i = ndl
                                 THEN newDiskLayer(S.layers[bottomDiff].root,
                                                   S.layers[bottomDiff].diffid)
                                 ELSE S.layers[i]],
                   !.dirty = dirtyCommit(S.dirty, slim)]
    IN  [S |-> mayFlush(S2, S.layers[bottomDiff].diffid, force), base |-> ndl, err |-> ""]

\* diffToDisk up to the append of the reverse diff.
CommitStore ==
    /\ capper.pc = "persist"
    /\ layers[layers[capper.target].parent].kind = "disk"
    /\ LET R == commitStore(Store, layers[capper.target].parent, capper.target)
       IN  IF R.err # "" THEN Step(R.S, IdleCapper, reader)
           ELSE Step(R.S, [capper EXCEPT !.pc = "flush"], reader)

\* diffToDisk from the append of the reverse diff on.
CommitFlush ==
    /\ capper.pc = "flush"
    /\ Persisted(commitFlush(Store, layers[capper.target].parent, capper.target,
                             capper.force))

\* The database opened without a journal: one disk layer with the root of
\* the account trie the key-value store holds and the persistent diffid,
\* empty caches, and the reverse diffs above the persistent diffid dropped.
OpenAfterCrash(S) ==
    Reopen(S, [diskRoot   |-> convertEmpty(ReadAccountTrieNode(S, <<>>).hash),
               diskDiffId |-> S.kvHead,
               dirty      |-> NoNodes,
               layers     |-> <<>>])

\* A crash at any step, and the open that follows: what is in memory is
\* lost, the key-value store and the freezer are kept.
Crash ==
    /\ reader.pc = "idle"
    /\ \/ capper.pc # "idle"
       \/ OpenAfterCrash(Store) # Store
    /\ Step(OpenAfterCrash(Store), IdleCapper, reader)

NextCommitCrash ==
    \/ UpdateBeside
    \/ CapBegin
    \/ CapLock
    \/ CapDescend
    \/ CommitStore
    \/ CommitFlush
    \/ CapRelink
    \/ Crash

SpecCommitCrash == Init /\ [][NextCommitCrash]_vars

\* C20: in every state, those between the steps of commit and those a crash
\* leaves included, the persistent diffid in the key-value store is not
\* above the id of the last reverse diff appended to the freezer, and a step
\* that writes the persistent diffid writes an id whose reverse diff the
\* freezer held before the step.
C20_ReverseDiffBeforeFlush ==
    /\ [](kvHead <= freezer.head)
    /\ [][kvHead' # kvHead => kvHead' <= freezer.head]_vars

\* Between the two halves of a commit, after an earlier flush: the reverse
\* diff is appended and the state it belongs to is not persisted yet.
C20_Witness ==
    /\ capper.pc = "flush"
    /\ kvHead >= 1
    /\ freezer.head = kvHead + 1

\* C21: persist flattens bottom to top.  While a diff layer is being
\* committed its parent is the disk layer one diffid below it and its
\* reverse diff is the last one appended, and the layers persist still has
\* to commit are locked and linked as they were; the layer above is linked
\* to the disk layer commit returned before it is the next to go to disk;
\* every append raises the head of the freezer by exactly one.
C21_PersistBottomToTop ==
    /\ [](capper.pc = "flush" =>
            LET t == capper.target
                d == layers[t].parent
                n == Len(capper.stack)
            IN  /\ layers[d].kind = "disk"
                /\ layers[d].diffid + 1 = layers[t].diffid
                /\ freezer.head = layers[t].diffid
                /\ \A i \in 1..n :
                      /\ capper.stack[i] \in capper.locked
                      /\ layers[capper.stack[i]].parent =
                            IF i = n THEN t ELSE capper.stack[i + 1])
    /\ [][freezer.head' > freezer.head => freezer.head' = freezer.head + 1]_vars
    /\ [][(capper.pc = "flush" /\ capper.stack # <<>> /\ capper'.pc = "persist") =>
            LET dl   == capper.stack[Len(capper.stack)]
                base == layers'[dl].parent
            IN  /\ capper'.target = dl
                /\ base \notin DOMAIN layers
                /\ layers'[base].kind = "disk"
                /\ ~layers'[base].stale
                /\ layers'[base].root = layers[capper.target].root
                /\ layers'[base].diffid + 1 = layers[dl].diffid]_vars

\* The second commit of one persist: the layer being committed stands on
\* the disk layer the first commit returned.
C21_Witness ==
    /\ capper.pc = "flush"
    /\ layers[layers[capper.target].parent].diffid >= 1
    /\ \E i \in DOMAIN layers :
          /\ layers[i].kind = "disk"
          /\ layers[i].stale
          /\ layers[i].diffid + 1 = layers[layers[capper.target].parent].diffid
    /\ \E i \in DOMAIN layers :
          layers[i].kind = "diff" /\ layers[i].root = layers[layers[capper.target].parent].root

\* ------------------------------------------------- no freezer attached

\* The database constructed with no reverse-diff freezer (commit is handed
\* a nil freezer and stores no reverse diff).
InitNoFreezer ==
    /\ layers = [i \in {1} |-> newDiskLayer(emptyRoot, 0)]
    /\ tree = [r \in {emptyRoot} |-> 1]
    /\ dirty = NoNodes
    /\ cacheLimit = DirtyLimit
    /\ kv = [k \in Keys |-> 0]
    /\ kvHead = 0
    /\ journal = FALSE
    /\ clean = [h \in {} |-> 0]
    /\ freezer = [attached |-> FALSE,
                  history |-> [attached |-> TRUE, head |-> 0],
                  room |-> MaxID,
                  tail |-> 0, head |-> 0,
                  items |-> [i \in {} |-> 0]]
    /\ InitMerged
    /\ InitProcs

SpecNoFreezer == InitNoFreezer /\ [][NextUpdateCap]_vars

\* C22 as stated: no cap commits into a disk layer that is stale, and no
\* two disk layers were derived from the same disk layer (two disk layers
\* of one diffid would have been).
C22_OneDiskLayerPerBase ==
    /\ \A i \in DOMAIN layers, j \in DOMAIN layers :
          (/\ layers[i].kind = "disk"
           /\ layers[j].kind = "disk"
           /\ layers[i].diffid = layers[j].diffid) => i = j
    /\ \A root \in Hashes, k \in 0..MaxKeep :
          LET snap == get(Store, root)
              R    == cap(Store, root, k)
          IN  (snap # 0 /\ R.S.layers # layers) => ~layers[Bottom(Store, snap)].stale

\* ------------------------------------------- append failures in commit

\* C23 as stated: when the append of the reverse diff or the append of the
\* state history fails inside diskLayer.commit, commit returns the error,
\* makes no new disk layer and leaves the tree as it was.
C23_AppendFailureSurfaced ==
    \A dl \in DOMAIN layers, b \in DOMAIN layers, force \in BOOLEAN :
       (/\ layers[dl].kind = "disk"
        /\ layers[b].kind = "diff"
        /\ layers[b].parent = dl) =>
          LET R  == commit(Store, dl, b, force)
              RD == IF freezer.attached THEN storeReverseDiff(Store, b, StateLimit)
                    ELSE [S |-> Store, err |-> ""]
              SH == IF RD.err = "" /\ freezer.history.attached
                    THEN WriteStateHistory(RD.S, layers[b].diffid)
                    ELSE [S |-> RD.S, err |-> ""]
          IN  (RD.err # "" \/ SH.err # "") =>
                 /\ R.err # ""
                 /\ R.base = 0
                 /\ DOMAIN R.S.layers = DOMAIN layers
                 /\ R.S.tree = tree

\* ------------------------------------------------------- cap that fails

\* The room of the smallest freezer disk.
FreezerRoom == 1

\* A database whose freezer disk has room for FreezerRoom reverse diffs at
\* most.
InitSmallFreezer ==
    /\ layers = [i \in {1} |-> newDiskLayer(emptyRoot, 0)]
    /\ tree = [r \in {emptyRoot} |-> 1]
    /\ dirty = NoNodes
    /\ cacheLimit = DirtyLimit
    /\ kv = [k \in Keys |-> 0]
    /\ kvHead = 0
    /\ journal = FALSE
    /\ clean = [h \in {} |-> 0]
    /\ \E room \in 0..FreezerRoom :
          freezer = [attached |-> TRUE,
                     history |-> [attached |-> TRUE, head |-> 0],
                     room |-> room,
                     tail |-> 0, head |-> 0,
                     items |-> [i \in {} |-> 0]]
    /\ InitMerged
    /\ InitProcs

SpecSmallFreezer == InitSmallFreezer /\ [][NextUpdateCap]_vars

\* C24 as stated: a cap that returns an error leaves the tree, the parent
\* of every layer and the stale flag of every layer as they were, and every
\* layer of the tree reads afterwards as it read before.
C24_FailedCapChangesNothing ==
    \A root \in Hashes, k \in 0..MaxKeep :
       LET R == cap(Store, root, k)
       IN  R.err # "" =>
              /\ R.S.tree = tree
              /\ DOMAIN R.S.layers = DOMAIN layers
              /\ \A i \in DOMAIN layers :
                    /\ R.S.layers[i].parent = layers[i].parent
                    /\ R.S.layers[i].stale = layers[i].stale
              /\ \A r \in DOMAIN tree, key \in Keys, hash \in Hashes :
                    LET before == NodeBlob(Store, tree[r], key, hash)
                        after  == NodeBlob(R.S, tree[r], key, hash)
                    IN  after.err = before.err /\ after.blob = before.blob

\* C25 as stated: in no reachable state is a disk layer that is stale
\* still the tree's entry for the bottom, and in no reachable state are a
\* disk layer and the disk layer committed onto it (one diffid above) both
\* alive below entries of the tree.
C25_StaleWhenNewVisible ==
    /\ \A r \in DOMAIN tree :
          layers[tree[r]].kind = "disk" => ~layers[tree[r]].stale
    /\ \A r1 \in DOMAIN tree, r2 \in DOMAIN tree :
          LET old == Bottom(Store, tree[r1])
              new == Bottom(Store, tree[r2])
          IN  layers[new].diffid = layers[old].diffid + 1 =>
                 layers[old].stale \/ layers[new].stale

\* C25 amended: the old disk layer is stale from the first step of commit,
\* before the new disk layer exists; the new disk layer is made by the
\* second half of commit and enters the tree only when cap links it, and
\* until then the stale old layer is what the tree holds.  The old and the
\* new disk layer are never both alive, and with no cap under way no entry
\* of the tree is a stale disk layer.
C25_StaleBeforeNewVisible ==
    /\ capper.pc \in {"flush", "relink"} =>
          LET old == layers[capper.target].parent
          IN  /\ layers[old].kind = "disk"
              /\ layers[old].stale
    /\ capper.pc = "flush" =>
          \A i \in DOMAIN layers :
             layers[i].kind = "disk" =>
                layers[i].diffid # layers[capper.target].diffid \/ layers[i].stale
    /\ capper.pc = "relink" =>
          LET old == layers[capper.target].parent
              new == capper.base
          IN  /\ layers[new].kind = "disk"
              /\ ~layers[new].stale
              /\ layers[new].diffid = layers[old].diffid + 1
              /\ \A r \in DOMAIN tree : tree[r] # new
    /\ capper.pc = "idle" =>
          \A r \in DOMAIN tree :
             layers[tree[r]].kind = "disk" => ~layers[tree[r]].stale
    /\ \A r1 \in DOMAIN tree, r2 \in DOMAIN tree :
          LET old == Bottom(Store, tree[r1])
              new == Bottom(Store, tree[r2])
          IN  layers[new].diffid = layers[old].diffid + 1 =>
                 layers[old].stale \/ layers[new].stale

\* The new disk layer is made and not yet linked, and the entry of the tree
\* for the bottom is the old disk layer, which is stale.
C25_Witness ==
    /\ capper.pc = "relink"
    /\ \E r \in DOMAIN tree :
          /\ tree[r] = layers[capper.target].parent
          /\ layers[tree[r]].stale

\* ------------------------------------------- setCacheSize beside lookups

\* setCacheSize: dl.lock.RLock() on the disk layer at the bottom of the
\* tree, and the check of its stale flag.
SetCacheSizeBegin ==
    \E root \in DOMAIN tree, size \in 0..DirtyLimit :
        LET dl == Bottom(Store, tree[root])
        IN  /\ capper.pc = "idle"
            /\ ~layers[dl].stale
            /\ size # cacheLimit
            /\ Step(Store, [capper EXCEPT !.pc = "size", !.target = dl, !.size = size],
                    reader)

\* diskcache.setSize: the new limit, and the batch of the flush if the cache
\* is now over it; with nothing to flush setCacheSize returns.
SetCacheSizeFlush ==
    /\ capper.pc = "size"
    /\ LET S1 == [Store EXCEPT !.limit = capper.size]
       IN  IF dirtySize(dirty) > capper.size
           THEN Step([flush(S1, layers[capper.target].diffid) EXCEPT !.dirty = dirty],
                     [capper EXCEPT !.pc = "reset"], reader)
           ELSE Step(S1, IdleCapper, reader)

\* The end of the flush: the cache is emptied, and setCacheSize returns.
SetCacheSizeReset ==
    /\ capper.pc = "reset"
    /\ Step([Store EXCEPT !.dirty = NoNodes], IdleCapper, reader)

NextSetCacheSize ==
    \/ UpdateBeside
    \/ CapBegin
    \/ CapLock
    \/ CapDescend
    \/ CapCommit
    \/ CapRelink
    \/ ReadBegin
    \/ ReadDescend
    \/ ReadLockDisk
    \/ ReadDiff
    \/ ReadDisk
    \/ ReadReturn
    \/ SetCacheSizeBegin
    \/ SetCacheSizeFlush
    \/ SetCacheSizeReset

SpecSetCacheSize == Init /\ [][NextSetCacheSize]_vars

\* C26 as stated: while setCacheSize is inside a disk layer no lookup holds
\* the lock of that disk layer, so no lookup reads the dirty cache between
\* the batch of a flush and the emptying of the cache.
C26_SetCacheSizeExclusive ==
    capper.pc \in {"size", "reset"} => capper.target \notin reader.held

\* ------------------------------------------------------- add beside cap

\* add up to tree.lock.Lock(): the check for a cycle and the lookup of the
\* parent, which get does under the read lock of the tree.
AddBegin ==
    \E b \in Blobs, parentRoot \in Hashes :
      \E root \in RootsOf(b) :
        LET parent == get(Store, parentRoot)
        IN  /\ reader.pc = "idle"
            /\ capper.pc = "idle"
            /\ convertEmpty(root) # convertEmpty(parentRoot)
            /\ parent # 0
            /\ InBound(Store, parentRoot)
            /\ Step(Store, capper,
                    [IdleReader EXCEPT !.pc = "add", !.start = parent,
                                       !.hash = convertEmpty(root), !.want = b])

\* add from tree.lock.Lock() on: the new diff layer on top of the parent
\* looked up before, stored under its root.
AddLink ==
    /\ reader.pc = "add"
    /\ capper.pc = "idle"
    /\ LET parent == reader.start
           snap   == NewId(layers)
           nodes  == UpdateNodes(reader.want, layers[parent].root)
       IN  Step([Store EXCEPT
                   !.layers = [i \in DOMAIN layers \cup {snap} |->
                                 IF i = snap
                                 THEN newDiffLayer(parent, reader.hash,
                                                   layers[parent].diffid + 1, nodes)
                                 ELSE layers[i]],
                   !.tree = Put(tree, reader.hash, snap)],
                capper, IdleReader)

NextAddCap ==
    \/ AddBegin
    \/ AddLink
    \/ CapBegin
    \/ CapLock
    \/ CapDescend
    \/ CapCommit
    \/ CapRelink

SpecAddCap == Init /\ [][NextAddCap]_vars

\* C27 as stated: the layer add links the new layer to is, at the step add
\* links it, a layer of the tree that is not stale: no cap has removed,
\* flattened or marked it since add looked it up.
C27_AddUnderTreeLock ==
    [][(reader.pc = "add" /\ reader'.pc # "add") =>
          /\ \E r \in DOMAIN tree : tree[r] = reader.start
          /\ ~layers[reader.start].stale]_vars

\* ------------------------------------------------ progress of cap, lookup

\* cap beside a lookup with the scheduling of Go: a goroutine that can take
\* a step takes one, and a goroutine that waits for a lock gets it once it
\* has been free often enough (a blocked Lock holds new readers back, and
\* Unlock lets the readers that wait go first).  The condition on the step of
\* cap that commits is strong fairness written out, with the guard of
\* CapCommit for its enabling condition.
FairCapRead ==
    /\ SpecCapRead
    /\ SF_vars(CapLock)
    /\ SF_vars(CapDescend)
    /\ SF_vars(CapRelink)
    /\ SF_vars(ReadDescend \/ ReadLockDisk \/ ReadDiff \/ ReadDisk \/ ReadReturn)
    /\ \/ <>[]~(/\ capper.pc = "persist"
                /\ layers[layers[capper.target].parent].kind = "disk"
                /\ layers[capper.target].parent \notin reader.held)
       \/ []<><<(/\ capper.pc = "persist"
                 /\ layers[layers[capper.target].parent].kind = "disk"
                 /\ capper' # capper)>>_vars

\* C28: no deadlock between cap and a lookup: every cap that has begun
\* returns, and every lookup that has begun returns.
C28_CapAndLookupComplete ==
    /\ (capper.pc # "idle") ~> (capper.pc = "idle")
    /\ (reader.pc # "idle") ~> (reader.pc = "idle")

\* cap waits for the lock of a layer that a lookup holds for reading.
C28_Witness ==
    \/ capper.pc = "lock" /\ capper.diff \in reader.held
    \/ capper.pc = "persist" /\ capper.target \in reader.held

\* ------------------------------------------------------ add and the tree

\* C29 as stated: an add that returns no error grows the tree by exactly
\* one layer: every entry the tree held is as it was, the entry of the disk
\* layer included, and the parent of every diff layer the tree held is still
\* the layer stored under the root of that parent if it was before.
C29_AddGrowsByOne ==
    \A b \in Blobs, parentRoot \in Hashes :
      \A root \in RootsOf(b) :
        LET R == add(Store, root, parentRoot, UpdateNodes(b, parentRoot))
        IN  R.err = "" =>
              /\ Cardinality(DOMAIN R.S.tree) = Cardinality(DOMAIN tree) + 1
              /\ \A r \in DOMAIN tree : R.S.tree[r] = tree[r]
              /\ \A r \in DOMAIN tree :
                    (/\ layers[tree[r]].kind = "diff"
                     /\ get(Store, layers[layers[tree[r]].parent].root)
                           = layers[tree[r]].parent) =>
                       get(R.S, layers[layers[tree[r]].parent].root)
                          = layers[tree[r]].parent

\* ------------------------------------------------- the chain below a cap

\* C30 as stated: after a cap(root, k), k >= 1, that returns no error the
\* tree holds root, and the parent chain of its layer is at most k diff
\* layers and then the disk layer the tree holds, which is not stale.
C30_ChainEndsInLiveDiskLayer ==
    \A root \in Hashes, k \in 1..MaxKeep :
        LET R == cap(Store, root, k)
        IN  (get(Store, root) # 0 /\ R.err = "") =>
              /\ get(R.S, root) # 0
              /\ LET chain == Chain(R.S.layers, get(R.S, root))
                     disk  == Bottom(R.S, get(R.S, root))
                 IN  /\ Cardinality({i \in chain : R.S.layers[i].kind = "diff"}) <= k
                     /\ R.S.layers[disk].kind = "disk"
                     /\ ~R.S.layers[disk].stale
                     /\ get(R.S, R.S.layers[disk].root) = disk

\* ------------------------------------------------- revert, case by case

\* The reverse diffs a caller can hand to revert: those the freezer holds,
\* and each of them with any other root.
RevertDiffs(S) ==
    {S.freezer.items[i] : i \in Stored(S.freezer)}
        \cup {[S.freezer.items[i] EXCEPT !.root = h] :
                 i \in Stored(S.freezer), h \in Hashes}

\* The three conditions revert checks before it takes the lock.
RevertMatches(S, dl, diff, diffid) ==
    /\ diff.root = S.layers[dl].root
    /\ diffid = S.layers[dl].diffid
    /\ diffid > 0

C32_RevertResult ==
    \A dl \in DOMAIN layers, diffid \in 0..MaxID, cerr \in {"", "revert-failed"} :
        \A diff \in RevertDiffs(Store) :
            LET R == revert(Store, dl, diff, diffid, cerr)
            IN  layers[dl].kind = "disk" /\ R.err = "" =>
                  /\ R.S.layers[dl].stale
                  /\ R.base \notin DOMAIN layers
                  /\ R.S.layers[R.base] = newDiskLayer(diff.parent, diffid - 1)
                  /\ \A i \in DOMAIN layers \ {dl} : R.S.layers[i] = layers[i]
                  /\ R.S.clean = clean
                  /\ IF dirtyEmpty(dirty)
                     THEN /\ R.S.dirty = dirty
                          /\ R.S.kvHead = diffid - 1
                          /\ \A k \in Keys :
                                R.S.kv[k] = IF k \in DOMAIN diff.states
                                            THEN diff.states[k] ELSE kv[k]
                     ELSE /\ R.S.kv = kv /\ R.S.kvHead = kvHead
                          /\ \A k \in DOMAIN diff.states :
                                /\ k \in DOMAIN R.S.dirty
                                /\ R.S.dirty[k].blob = diff.states[k]
                          /\ \A k \in DOMAIN dirty \ DOMAIN diff.states :
                                R.S.dirty[k] = dirty[k]

\* A successful revert through an empty dirty cache that writes previous
\* values a stored node had lost.
C32_Witness ==
    \E dl \in DOMAIN layers, diff \in RevertDiffs(Store) :
        LET R == revert(Store, dl, diff, layers[dl].diffid, "")
        IN  /\ layers[dl].kind = "disk" /\ ~layers[dl].stale
            /\ dirtyEmpty(dirty)
            /\ R.err = ""
            /\ R.S.kv # kv
            /\ R.S.kvHead = kvHead - 1

\* ----------------------------------------------- lookups in the disk layer

\* C33: the lookup in a disk layer that is not stale of a node that neither
\* the dirty cache holds under its key, nor the clean cache under the hash
\* asked for, nor the key-value store under its key returns no node and no
\* error, whatever the hash asked for; NodeBlob then returns an empty blob
\* and no error.
C33_AbsentIsNotFound ==
    \A dl \in DOMAIN layers, key \in Keys, hash \in Hashes :
        /\ layers[dl].kind = "disk" /\ ~layers[dl].stale
        /\ key \notin DOMAIN dirty
        /\ (hash \notin DOMAIN clean \/ clean[hash] = 0)
        /\ kv[key] = 0
        => /\ diskLayerNode(Store, dl, key, hash) = NotFound(Store)
           /\ NodeBlob(Store, dl, key, hash).err = ""
           /\ NodeBlob(Store, dl, key, hash).blob = 0

\* C34: the lookup in a diff layer of a key whose entry in the layer's own
\* nodes is a deletion (zero hash), asked for with that hash, returns no node
\* and no error.
C34_TombstoneIsNotFound ==
    \A dl \in DOMAIN layers, key \in Keys :
        /\ layers[dl].kind = "diff" /\ ~layers[dl].stale
        /\ key \in DOMAIN layers[dl].nodes
        /\ layers[dl].nodes[key].hash = ZeroHash
        => LET r == diffLayerNode(Store, dl, key, ZeroHash)
           IN  r.err = "" /\ ~r.found

\* C35: a disk layer that is not stale answers a lookup from the dirty cache
\* if the cache holds the key (with unexpected-node if the hash differs),
\* otherwise from the entry the clean cache holds under the hash, otherwise
\* from the key-value store: a stored blob with another hash yields
\* unexpected-node and leaves the clean cache as it was, a stored blob with
\* the hash asked for is put into the clean cache and returned.
C35_LookupOrder ==
    \A dl \in DOMAIN layers, key \in Keys, hash \in Hashes :
        layers[dl].kind = "disk" /\ ~layers[dl].stale =>
            LET r == diskLayerNode(Store, dl, key, hash)
                b == kv[key]
            IN  IF key \in DOMAIN dirty
                THEN /\ r.S = Store
                     /\ IF dirty[key].hash = hash
                        THEN r.err = "" /\ r.found /\ r.n = dirty[key]
                        ELSE r.err = "unexpected-node" /\ ~r.found
                ELSE IF hash \in DOMAIN clean /\ clean[hash] # 0
                THEN /\ r.S = Store
                     /\ r.err = "" /\ r.found
                     /\ r.n = [hash |-> hash, blob |-> clean[hash]]
                ELSE IF b # 0 /\ Keccak(b) # hash
                THEN r.err = "unexpected-node" /\ ~r.found /\ r.S = Store
                ELSE IF b # 0
                THEN /\ r.err = "" /\ r.found
                     /\ r.n = [hash |-> hash, blob |-> b]
                     /\ hash \in DOMAIN r.S.clean /\ r.S.clean[hash] = b
                     /\ \A h \in DOMAIN clean : h # hash => r.S.clean[h] = clean[h]
                     /\ [r.S EXCEPT !.clean = clean] = Store
                ELSE r.S = Store /\ ~r.found

\* A disk layer whose key-value store holds a node that neither cache holds
\* (a rollback wrote it back): the lookup returns it and the clean cache
\* holds it afterwards.
C35_Witness ==
    \E dl \in DOMAIN layers, key \in Keys, hash \in Hashes :
        /\ layers[dl].kind = "disk" /\ ~layers[dl].stale
        /\ key \notin DOMAIN dirty
        /\ kv[key] # 0 /\ Keccak(kv[key]) = hash
        /\ hash \notin DOMAIN clean
        /\ diskLayerNode(Store, dl, key, hash).found
        /\ diskLayerNode(Store, dl, key, hash).S.clean # clean

\* C36: a lookup in a disk layer that is not stale returns a blob only if
\* the state of the layer, the dirty cache over the key-value store, holds
\* under the key a node with the hash asked for.
C36_ServedOnlyFromState ==
    \A dl \in DOMAIN layers, key \in Keys, hash \in Hashes :
        layers[dl].kind = "disk" /\ ~layers[dl].stale =>
            LET r   == diskLayerNode(Store, dl, key, hash)
                cur == IF key \in DOMAIN dirty THEN dirty[key].blob ELSE kv[key]
            IN  r.err = "" /\ r.found /\ r.n.blob # 0
                    => cur # 0 /\ Keccak(cur) = hash

\* ------------------------------------------------- cap that has nothing to do

\* C37, as stated: cap of the root of the disk layer, with any number of
\* layers to keep, reports success and leaves the tree, every layer, the
\* freezers and the key-value store unchanged.
C37_CapOfDiskLayerSucceeds ==
    \A root \in Hashes, k \in 0..MaxKeep :
        get(Store, root) # 0 /\ layers[get(Store, root)].kind = "disk" =>
            LET R == cap(Store, root, k)
            IN  R.err = "" /\ R.S = Store

\* C37, amended: cap of the root of the disk layer leaves the tree, every
\* layer, the freezers and the key-value store unchanged and returns the
\* error that the layer is a disk layer.
C37_CapOfDiskLayerRejected ==
    \A root \in Hashes, k \in 0..MaxKeep :
        get(Store, root) # 0 /\ layers[get(Store, root)].kind = "disk" =>
            LET R == cap(Store, root, k)
            IN  R.err = "is-disk-layer" /\ R.S = Store

\* The root of a disk layer below two diff layers, a cap of which is
\* refused although a cap of the head with the same number would flatten.
C37_Witness ==
    \E root \in DOMAIN tree, head \in DOMAIN tree, k \in 0..MaxKeep :
        /\ layers[tree[root]].kind = "disk"
        /\ cap(Store, root, k).err = "is-disk-layer"
        /\ tree[root] \in Chain(layers, tree[head])
        /\ Diffs(Store, tree[head]) > k
        /\ cap(Store, head, k).err = ""
        /\ cap(Store, head, k).S # Store

\* C38, as stated: cap(root, k) with k >= 1 returns no error and changes
\* nothing when the parent chain of the layer of root holds at most k diff
\* layers.
C38_ShallowCapSucceeds ==
    \A root \in Hashes, k \in 1..MaxKeep :
        get(Store, root) # 0 /\ Diffs(Store, get(Store, root)) <= k =>
            LET R == cap(Store, root, k)
            IN  R.err = "" /\ R.S = Store

\* C38, amended: cap(root, k) with k >= 1 of the root of a diff layer
\* returns no error and changes nothing when the parent chain of that layer
\* holds at most k diff layers; with no diff layer on the chain, the root
\* that of a disk layer, it changes nothing and returns an error.
C38_ShallowCapOfDiffLayer ==
    \A root \in Hashes, k \in 1..MaxKeep :
        get(Store, root) # 0 /\ Diffs(Store, get(Store, root)) <= k =>
            LET R == cap(Store, root, k)
            IN  /\ R.S = Store
                /\ R.err = IF layers[get(Store, root)].kind = "diff" THEN ""
                           ELSE "is-disk-layer"

\* A chain of exactly two diff layers capped at two, and capped at one,
\* which flattens it.
C38_Witness ==
    \E root \in DOMAIN tree :
        /\ layers[tree[root]].kind = "diff"
        /\ Diffs(Store, tree[root]) = 2
        /\ cap(Store, root, 2).err = "" /\ cap(Store, root, 2).S = Store
        /\ cap(Store, root, 1).err = "" /\ cap(Store, root, 1).S # Store

\* ------------------------------------------------------- forEachTipNode

\* Longest node path of the node sets handed to forEachTipNode.
MaxPathLen == 2

\* The node paths: strings of at most MaxPathLen nibbles, of two values.
Paths == UNION {[1..n -> 0..1] : n \in 0..MaxPathLen}

\* paths.Sort() that puts the shorter path first and orders the paths of
\* one length from left to right.
RECURSIVE SortPathsByDepth(_)
SortPathsByDepth(ps) ==
    IF ps = {} THEN <<>>
    ELSE LET less(a, b) ==
                 \/ Len(a) < Len(b)
                 \/ /\ Len(a) = Len(b)
                    /\ \E k \in 1..Len(a) :
                          /\ \A j \in 1..(k - 1) : a[j] = b[j]
                          /\ a[k] < b[k]
             first == CHOOSE p \in ps : \A q \in ps \ {p} : less(p, q)
         IN  <<first>> \o SortPathsByDepth(ps \ {first})

\* paths.Sort(): the paths in the order of sort.StringSlice, byte by byte,
\* a string before the strings it is a prefix of.
RECURSIVE SortPaths(_)
SortPaths(ps) ==
    IF ps = {} THEN <<>>
    ELSE LET less(a, b) ==
                 \E k \in 1..(Len(a) + 1) :
                     /\ k <= Len(b)
                     /\ \A j \in 1..(k - 1) : a[j] = b[j]
                     /\ k = Len(a) + 1 \/ a[k] < b[k]
             first == CHOOSE p \in ps : \A q \in ps \ {p} : less(p, q)
         IN  <<first>> \o SortPaths(ps \ {first})

\* strings.HasPrefix(cur, prev)
HasPrefix(cur, prev) ==
    Len(prev) <= Len(cur) /\ SubSeq(cur, 1, Len(prev)) = prev

\* The loop of forEachTipNode over the sorted paths from the i-th on: the
\* path goes on the stack, and from the second path on the path before it
\* is a tip unless it is a prefix; after the loop the path left is a tip.
RECURSIVE tipScan(_, _, _, _)
tipScan(paths, i, stack, tips) ==
    IF i > Len(paths)
    THEN IF Len(stack) = 1 THEN Append(tips, stack[1]) ELSE tips
    ELSE LET st == Append(stack, paths[i])
         IN  IF Len(st) = 1 THEN tipScan(paths, i + 1, st, tips)
             ELSE tipScan(paths, i + 1, Tail(st),
                          IF ~HasPrefix(st[2], st[1])
                          THEN Append(tips, st[1]) ELSE tips)

\* forEachTipNode: the callback is called on the tips in their order up to
\* the first call that returns an error; bad holds the paths at which the
\* callback returns one.
forEachTipNode(nodes, bad) ==
    LET tips  == tipScan(SortPaths(DOMAIN nodes), 1, <<>>, <<>>)
        fails == {i \in 1..Len(tips) : tips[i] \in bad}
        last  == IF fails = {} THEN Len(tips)
                 ELSE CHOOSE i \in fails : \A j \in fails : i <= j
    IN  [calls |-> [i \in 1..last |-> <<tips[i], nodes[tips[i]]>>],
         err   |-> IF fails = {} THEN "" ELSE "callback-error"]

\* A call of forEachTipNode with the node set and the callback chosen at
\* the start.
ForEachTip ==
    /\ call.op = "forEachTipNode" /\ ~call.done
    /\ call' = [call EXCEPT !.done = TRUE,
                            !.out = forEachTipNode(call.nodes, call.bad)]
    /\ UNCHANGED <<layers, tree, dirty, cacheLimit, kv, kvHead, journal, clean, freezer,
                   sets, merges, procVars>>

\* ------------------------------------------------------ newStateHistory

\* The previous leaves resolvePrevLeaves hands over for one trie: at most
\* two elements, in the order of their keys, each with the value before the
\* change, of one or two bytes.
Elements ==
    LET prevs == {<<1>>, <<2, 3>>}
    IN  {<<>>}
          \cup {<<[key |-> k, prev |-> v]>> : k \in 1..NOwners, v \in prevs}
          \cup {<<[key |-> 1, prev |-> v], [key |-> NOwners, prev |-> w]>> :
                   v \in prevs, w \in prevs}

\* newStorageMetadata: the index entries and the data of the slots of one
\* account, the offsets counted on from the given one.
RECURSIVE newStorageMetadata(_, _)
newStorageMetadata(offset, storage) ==
    IF storage = <<>> THEN [metas |-> <<>>, data |-> <<>>, offset |-> offset]
    ELSE LET slot == Head(storage)
             rest == newStorageMetadata(offset + Len(slot.prev), Tail(storage))
         IN  [metas  |-> <<[hash |-> slot.key, offset |-> offset,
                            length |-> Len(slot.prev)]>> \o rest.metas,
              data   |-> slot.prev \o rest.data,
              offset |-> rest.offset]

\* newAccountIndex of the first implementation's call, which hands the
\* number of slots of the account over as the slot offset.
newAccountIndexByNumber(element, accountOffset, slotIndexes, slotOffset) ==
    [hash |-> element.key, offset |-> accountOffset, length |-> Len(element.prev),
     slotOffset |-> Len(slotIndexes), slotNumber |-> Len(slotIndexes)]

\* newAccountIndex
newAccountIndex(element, accountOffset, slotIndexes, slotOffset) ==
    [hash |-> element.key, offset |-> accountOffset, length |-> Len(element.prev),
     slotOffset |-> slotOffset, slotNumber |-> Len(slotIndexes)]

\* The second loop of newStateHistory from the i-th leaf of the account
\* trie on; h holds the metadata and the data gathered so far and the three
\* running offsets.
RECURSIVE stateHistoryLoop(_, _, _)
stateHistoryLoop(leaves, i, h) ==
    LET accounts == IF ZeroHash \in DOMAIN leaves THEN leaves[ZeroHash] ELSE <<>>
    IN  IF i > Len(accounts) THEN h
        ELSE LET element == accounts[i]
                 slots   == IF element.key \in DOMAIN leaves
                            THEN leaves[element.key] ELSE <<>>
                 sm      == newStorageMetadata(h.slotOffset, slots)
                 aMeta   == newAccountIndex(element, h.accountOffset, sm.metas,
                                            h.accountSlotOff)
             IN  stateHistoryLoop(leaves, i + 1,
                    [accountMetas   |-> Append(h.accountMetas, aMeta),
                     storageMetas   |-> h.storageMetas \o sm.metas,
                     accountData    |-> h.accountData \o element.prev,
                     slotData       |-> h.slotData \o sm.data,
                     accountOffset  |-> h.accountOffset + Len(element.prev),
                     accountSlotOff |-> h.accountSlotOff + Len(sm.metas),
                     slotOffset     |-> sm.offset])

\* newStateHistory (the second implementation), from the leaves of each
\* owner on: the account metadata, the storage metadata, the account data
\* and the slot data.
newStateHistory(leaves) ==
    LET h == stateHistoryLoop(leaves, 1,
                [accountMetas |-> <<>>, storageMetas |-> <<>>,
                 accountData |-> <<>>, slotData |-> <<>>,
                 accountOffset |-> 0, accountSlotOff |-> 0, slotOffset |-> 0])
    IN  [accountMetas |-> h.accountMetas, storageMetas |-> h.storageMetas,
         accountData |-> h.accountData, slotData |-> h.slotData]

\* A call of newStateHistory with the leaves chosen at the start.
NewStateHistory ==
    /\ call.op = "newStateHistory" /\ ~call.done
    /\ call' = [call EXCEPT !.done = TRUE, !.out = newStateHistory(call.leaves)]
    /\ UNCHANGED <<layers, tree, dirty, cacheLimit, kv, kvHead, journal, clean, freezer,
                   sets, merges, procVars>>

\* A call about to be made: forEachTipNode on any set of paths with a
\* callback that fails at any of them, or newStateHistory on the leaves of
\* the account trie and of the storage tries of any owners.
InitNodeSets ==
    /\ InitDatabase
    /\ InitProcs
    /\ sets = NewMergedNodeSet
    /\ merges = <<>>
    /\ \/ \E ps \in SUBSET Paths, bad \in SUBSET Paths :
             call = [op |-> "forEachTipNode", done |-> FALSE,
                     nodes |-> [p \in ps |-> NodeWithPrev(1, 0)], bad |-> bad,
                     out |-> [calls |-> <<>>, err |-> ""]]
       \/ \E owners \in SUBSET Owners :
             \E leaves \in [owners -> Elements] :
                call = [op |-> "newStateHistory", done |-> FALSE, leaves |-> leaves,
                        out |-> newStateHistory([o \in {} |-> <<>>])]

NextNodeSets ==
    \/ ForEachTip
    \/ NewStateHistory

SpecNodeSets == InitNodeSets /\ [][NextNodeSets]_vars

\* C39: forEachTipNode calls the callback on exactly the paths of the node
\* set that are no strict prefix of another path of the set, each once and
\* in ascending lexicographic order, on none for an empty set; it stops at
\* the first call that returns an error and returns that error.
C39_TipsInOrder ==
    call.op = "forEachTipNode" /\ call.done =>
        LET ps     == DOMAIN call.nodes
            calls  == call.out.calls
            strict(p, q) == Len(p) < Len(q) /\ \A j \in 1..Len(p) : p[j] = q[j]
            before(p, q) ==
                \/ strict(p, q)
                \/ \E k \in 1..Len(p) :
                      /\ k <= Len(q)
                      /\ \A j \in 1..(k - 1) : p[j] = q[j]
                      /\ p[k] < q[k]
            tips   == {p \in ps : \A q \in ps : ~strict(p, q)}
            called == {calls[i][1] : i \in 1..Len(calls)}
        IN  /\ called \subseteq tips
            /\ \A i \in 1..Len(calls) : calls[i][2] = call.nodes[calls[i][1]]
            /\ \A i \in 1..Len(calls), j \in 1..Len(calls) :
                  i < j => before(calls[i][1], calls[j][1])
            /\ \A p \in tips, q \in called : before(p, q) => p \in called
            /\ \A i \in 1..(Len(calls) - 1) : calls[i][1] \notin call.bad
            /\ IF call.out.err = ""
               THEN called = tips /\ called \cap call.bad = {}
               ELSE Len(calls) > 0 /\ calls[Len(calls)][1] \in call.bad
            /\ ps = {} => calls = <<>> /\ call.out.err = ""

\* A node set with a path that is a prefix of another and three tips, the
\* second of which fails the callback: two calls are made and the third tip
\* is not reached.
C39_Witness ==
    /\ call.op = "forEachTipNode" /\ call.done
    /\ \E p \in DOMAIN call.nodes, q \in DOMAIN call.nodes :
          p # q /\ HasPrefix(q, p)
    /\ Len(call.out.calls) = 2
    /\ call.out.err # ""
    /\ \E t \in DOMAIN call.nodes :
          /\ t \notin {call.out.calls[i][1] : i \in 1..2}
          /\ \A q \in DOMAIN call.nodes : q = t \/ ~HasPrefix(q, t)

\* C40: newStateHistory emits one account entry for each previous leaf of
\* the account trie, in their order; the bytes [Offset, Offset+Length) of
\* the account data are the previous value of that account, the storage
\* entries [SlotOffset, SlotOffset+SlotNumber) are the slots of that account
\* in their order, and the bytes [Offset, Offset+Length) of the slot data are
\* the previous value of the slot; each offset is the sum of the lengths, or
\* of the slot numbers, of the entries before it.
C40_StateHistoryLayout ==
    call.op = "newStateHistory" /\ call.done =>
        LET leaves   == call.leaves
            accounts == IF ZeroHash \in DOMAIN leaves THEN leaves[ZeroHash] ELSE <<>>
            slotsOf(a) == IF a \in DOMAIN leaves THEN leaves[a] ELSE <<>>
            am == call.out.accountMetas
            sm == call.out.storageMetas
        IN  /\ Len(am) = Len(accounts)
            /\ \A i \in 1..Len(am) :
                  /\ am[i].hash = accounts[i].key
                  /\ am[i].length = Len(accounts[i].prev)
                  /\ am[i].offset = IF i = 1 THEN 0
                                    ELSE am[i - 1].offset + am[i - 1].length
                  /\ SubSeq(call.out.accountData, am[i].offset + 1,
                            am[i].offset + am[i].length) = accounts[i].prev
                  /\ am[i].slotOffset = IF i = 1 THEN 0
                                        ELSE am[i - 1].slotOffset + am[i - 1].slotNumber
                  /\ am[i].slotNumber = Len(slotsOf(accounts[i].key))
                  /\ am[i].slotOffset + am[i].slotNumber <= Len(sm)
                  /\ \A j \in 1..am[i].slotNumber :
                        LET e == sm[am[i].slotOffset + j]
                        IN  /\ e.hash = slotsOf(accounts[i].key)[j].key
                            /\ SubSeq(call.out.slotData, e.offset + 1,
                                      e.offset + e.length)
                                   = slotsOf(accounts[i].key)[j].prev
            /\ \A k \in 1..Len(sm) :
                  sm[k].offset = IF k = 1 THEN 0
                                 ELSE sm[k - 1].offset + sm[k - 1].length
            /\ Len(sm) = IF am = <<>> THEN 0
                         ELSE am[Len(am)].slotOffset + am[Len(am)].slotNumber
            /\ Len(call.out.accountData)
                   = IF am = <<>> THEN 0
                     ELSE am[Len(am)].offset + am[Len(am)].length
            /\ Len(call.out.slotData)
                   = IF sm = <<>> THEN 0
                     ELSE sm[Len(sm)].offset + sm[Len(sm)].length

\* Two accounts with two slots each, previous values of different lengths:
\* the second account's slots start at entry 2 of the storage index and
\* its data behind the data of the first.
C40_Witness ==
    /\ call.op = "newStateHistory" /\ call.done
    /\ Len(call.out.accountMetas) = 2
    /\ Len(call.out.storageMetas) = 4
    /\ call.out.accountMetas[2].slotOffset = 2
    /\ call.out.accountMetas[2].offset = 2
    /\ call.out.storageMetas[3].offset = 3
    /\ call.out.storageMetas[3].length = 2

=============================================================================
